---------------------------- MODULE Spec2Model ----------------------------
(***************************************************************************)
(* mods4pandas: conversion of METS/MODS and ALTO documents into flat       *)
(* tabular records.  The module models the latest variant of the sources   *)
(* (src/src/mods4pandas): the tabular sink of lib.py, the structural       *)
(* linker pages_to_dict, the converters and the two batch drivers.         *)
(*                                                                         *)
(* Representation.  A Python str is a sequence of one-character strings,   *)
(* so that character-level code (regular expressions, str.lower) is        *)
(* modelled by what it does.  A Python value is a record [t, v]: t is      *)
(* type(x).__name__ and v the payload.  A Python dict, which keeps         *)
(* insertion order, is a sequence of [k, v] pairs with distinct keys.      *)
(***************************************************************************)
EXTENDS Integers, Sequences, FiniteSets, TLC

VARIABLES
    current_columns,        \* lib.py:329   table -> list of column names
    current_columns_types,  \* lib.py:330   table -> (column -> type name)
    db,                     \* the SQLite stores, one table per connection
    mode,                   \* which program runs in this behaviour
    pc,                     \* position of the running program
    files,                  \* the driver's list of documents (mets_files_real)
    idx,                    \* number of documents the for loop has taken
    log,                    \* what each call / loop iteration did, in order
    csv,                    \* rows written to <output>.warnings.csv
    out,                    \* the finalized outputs (Parquet files)
    arg,                    \* argument of the pure function under check
    ret                     \* its result

vars == <<current_columns, current_columns_types, db, mode, pc, files, idx,
          log, csv, out, arg, ret>>

----------------------------------------------------------------------------
(* Strings and values *)

Range(s) == {s[i] : i \in 1..Len(s)}

LowerChars == <<"a","b","c","d","e","f","g","h","i","j","k","l","m",
                "n","o","p","q","r","s","t","u","v","w","x","y","z">>
UpperChars == <<"A","B","C","D","E","F","G","H","I","J","K","L","M",
                "N","O","P","Q","R","S","T","U","V","W","X","Y","Z">>
DigitChars == <<"0","1","2","3","4","5","6","7","8","9">>
Lowercase == Range(LowerChars)
Uppercase == Range(UpperChars)
Digits == Range(DigitChars)

\* str.lower() on ASCII text
LowerChar(c) ==
    IF c \in Uppercase
    THEN LowerChars[CHOOSE i \in 1..Len(UpperChars) : UpperChars[i] = c]
    ELSE c
Lower(s) == [i \in 1..Len(s) |-> LowerChar(s[i])]

\* An attribute the element does not have (attrib.get gives None).
Absent == <<"(absent)">>
AttrValue(a) == IF a = Absent THEN [t |-> "NoneType", v |-> <<>>] ELSE [t |-> "str", v |-> a]
\* The attribute inside an f-string: None is formatted as "None".
Fmt(a) == IF a = Absent THEN <<"N","o","n","e">> ELSE a

s_None == <<"N","o","n","e">>
s_True == <<"T","r","u","e">>
s_False == <<"F","a","l","s","e">>

None == [t |-> "NoneType", v |-> <<>>]
PyStr(s) == [t |-> "str", v |-> s]
PyInt(n) == [t |-> "int", v |-> n]
PyBool(b) == [t |-> "bool", v |-> b]
PySet(S) == [t |-> "set", v |-> S]
PyFloat64(s) == [t |-> "float64", v |-> s]   \* payload: the repr of the float
PyDict(d) == [t |-> "dict", v |-> d]

RECURSIVE IntToStr(_)
IntToStr(n) ==
    IF n < 10 THEN <<DigitChars[n + 1]>>
    ELSE IntToStr(n \div 10) \o <<DigitChars[(n % 10) + 1]>>

RECURSIVE JoinSeq(_, _)
JoinSeq(ss, sep) ==
    IF Len(ss) = 0 THEN <<>>
    ELSE IF Len(ss) = 1 THEN ss[1]
    ELSE ss[1] \o sep \o JoinSeq(Tail(ss), sep)

\* An enumeration of a finite set, in an arbitrary fixed order.
RECURSIVE SetToSeq(_)
SetToSeq(S) ==
    IF S = {} THEN <<>>
    ELSE LET x == CHOOSE x \in S : TRUE IN <<x>> \o SetToSeq(S \ {x})

\* str(x), as insert_into_db applies it to every value of a record.
Str(x) ==
    CASE x.t = "str" -> x.v
      [] x.t = "NoneType" -> s_None
      [] x.t = "int" -> IntToStr(x.v)
      [] x.t = "bool" -> IF x.v THEN s_True ELSE s_False
      [] x.t = "float64" -> x.v
      [] x.t = "set" ->
            IF x.v = {} THEN <<"s","e","t","(",")">>
            ELSE <<"{">>
                 \o JoinSeq([i \in 1..Cardinality(x.v) |->
                               <<"'">> \o SetToSeq(x.v)[i] \o <<"'">>], <<",", " ">>)
                 \o <<"}">>

----------------------------------------------------------------------------
(* dict *)

DKeys(d) == [i \in 1..Len(d) |-> d[i].k]
DHas(d, k) == \E i \in 1..Len(d) : d[i].k = k
DGet(d, k) == d[CHOOSE i \in 1..Len(d) : d[i].k = k].v
DPut(d, k, v) ==
    IF DHas(d, k)
    THEN [i \in 1..Len(d) |-> IF d[i].k = k THEN [k |-> k, v |-> v] ELSE d[i]]
    ELSE Append(d, [k |-> k, v |-> v])

----------------------------------------------------------------------------
(* lib.py: the tabular sink *)

\* re.match(r'^[a-zA-Z0-9 _@/:\[\]-]+$', k); $ also matches before a
\* newline that ends the string.
KeyChars == Lowercase \cup Uppercase \cup Digits
              \cup {" ", "_", "@", "/", ":", "[", "]", "-"}

valid_column_key(k) ==
    \/ Len(k) >= 1 /\ \A i \in 1..Len(k) : k[i] \in KeyChars
    \/ Len(k) >= 2 /\ k[Len(k)] = "\n" /\ \A i \in 1..(Len(k) - 1) : k[i] \in KeyChars


\* The state insert_into_db works on: the table's entries of the two
\* module-level dicts, the table in the SQLite store, and the exception
\* the call ends with ("" when it returns) and the step that raised it.
NoTable == [exists |-> FALSE, cols |-> <<>>, rows |-> <<>>, committed |-> 0]
NoTypes == [k \in {} |-> ""]

SetMin(S) == CHOOSE x \in S : \A y \in S : x <= y

\* lib.py:335-340  "Create table if necessary".  fault names the kind of
\* SQL statement the store refuses in this call (disk full, locked file).
CreateTable(S, d, fault) ==
    IF S.cols # <<>> THEN S
    ELSE LET keys == DKeys(d)
             bad == {i \in 1..Len(keys) : ~valid_column_key(keys[i])}
         IN  IF bad # {}
             THEN [S EXCEPT !.cols = SubSeq(keys, 1, SetMin(bad) - 1),
                            !.err = "AssertionError", !.at = "create"]
             ELSE IF fault = "create" \/ S.tb.exists \/ keys = <<>>
             THEN [S EXCEPT !.cols = keys, !.err = "OperationalError",
                            !.at = "create"]
             ELSE [S EXCEPT !.cols = keys,
                            !.tb = [exists |-> TRUE, cols |-> keys,
                                    rows |-> <<>>, committed |-> 0]]

\* lib.py:342-347  "Add columns if necessary", from the i-th key on.
RECURSIVE AddColumns(_, _, _, _)
AddColumns(S, keys, i, fault) ==
    IF i > Len(keys) THEN S
    ELSE IF keys[i] \in Range(S.cols) THEN AddColumns(S, keys, i + 1, fault)
    ELSE IF ~valid_column_key(keys[i])
    THEN [S EXCEPT !.err = "AssertionError", !.at = "alter"]
    ELSE IF fault = "alter" \/ ~S.tb.exists \/ keys[i] \in Range(S.tb.cols)
    THEN [S EXCEPT !.cols = Append(@, keys[i]), !.err = "OperationalError",
                   !.at = "alter"]
    ELSE AddColumns([S EXCEPT !.cols = Append(@, keys[i]),
                              !.tb.cols = Append(@, keys[i])],
                    keys, i + 1, fault)

\* Mutant of SaveTypes: the type of the latest value replaces the recorded one.
SaveTypesLatest(types, d) ==
    [k \in DOMAIN types \cup Range(DKeys(d)) |->
        IF DHas(d, k) THEN DGet(d, k).t ELSE types[k]]

\* lib.py:349-352  "Save types": the type of the value of the first record
\* that has the key.
SaveTypes(types, d) ==
    [k \in DOMAIN types \cup Range(DKeys(d)) |->
        IF k \in DOMAIN types THEN types[k] ELSE DGet(d, k).t]

\* lib.py:354-364  the INSERT statement; every value goes in as str(value).
InsertRow(S, d, fault) ==
    LET keys == DKeys(d) IN
    IF fault = "insert" \/ ~S.tb.exists \/ keys = <<>>
         \/ ~(Range(keys) \subseteq Range(S.tb.cols))
    THEN [S EXCEPT !.err = "OperationalError", !.at = "insert"]
    ELSE [S EXCEPT !.tb.rows =
             Append(@, [k \in Range(keys) |-> Str(DGet(d, k))])]

\* lib.py:332-364
insert_into_db(S, d, fault) ==
    LET S1 == CreateTable(S, d, fault) IN
    IF S1.err # "" THEN S1 ELSE
    LET S2 == AddColumns(S1, DKeys(d), 1, fault) IN
    IF S2.err # "" THEN S2 ELSE
    InsertRow([S2 EXCEPT !.types = SaveTypes(@, d)], d, fault)

\* lib.py:366-368
RECURSIVE insert_into_db_multiple(_, _, _)
insert_into_db_multiple(S, ld, faults) ==
    IF Len(ld) = 0 THEN S
    ELSE LET S1 == insert_into_db(S, Head(ld), Head(faults)) IN
         IF S1.err # "" THEN S1
         ELSE insert_into_db_multiple(S1, Tail(ld), Tail(faults))

\* con.commit()
Commit(tb) == [tb EXCEPT !.committed = Len(tb.rows)]

\* The sink's state for one table, and a state written back.
SinkOf(table) ==
    [cols |-> current_columns[table], types |-> current_columns_types[table],
     tb |-> db[table], err |-> "", at |-> ""]

----------------------------------------------------------------------------
(* lib.py: the final coercion pass *)

IsIntText(s) == Len(s) >= 1 /\ \A i \in 1..Len(s) : s[i] \in Digits
IsFloatText(s) ==
    /\ \A i \in 1..Len(s) : s[i] \in Digits \cup {"."}
    /\ \E i \in 1..Len(s) : s[i] \in Digits
    /\ Cardinality({i \in 1..Len(s) : s[i] = "."}) <= 1

DigitVal(c) == CHOOSE n \in 0..9 : DigitChars[n + 1] = c

RECURSIVE StrToInt(_)
StrToInt(s) ==
    IF Len(s) = 0 THEN 0
    ELSE 10 * StrToInt(SubSeq(s, 1, Len(s) - 1)) + DigitVal(s[Len(s)])

\* pd.read_sql_query: a cell is the stored text, or None for NULL.
Cell(row, c) == IF c \in DOMAIN row THEN PyStr(row[c]) ELSE None

\* Mutant of ConvertColumn: a set column falls through to the last branch.
ConvertColumnSetRaises(column_type, cells) ==
    CASE column_type \in {"str"} ->
            [err |-> "", dtype |-> "object", cells |-> cells]
      [] OTHER ->
            [err |-> "NotImplementedError", dtype |-> "object", cells |-> cells]

\* lib.py:377-389  one column of the DataFrame under its recorded type.
\* astype("Int64") and astype("Float64") parse the text of every cell that
\* is not null and raise ValueError on a text that is no number;
\* map({"True": True, "False": False}) sends every other text to null.
ConvertColumn(column_type, cells) ==
    CASE column_type = "str" ->
            [err |-> "", dtype |-> "object", cells |-> cells]
      [] column_type = "int" ->
            IF \E i \in 1..Len(cells) : cells[i] # None /\ ~IsIntText(cells[i].v)
            THEN [err |-> "ValueError", dtype |-> "object", cells |-> cells]
            ELSE [err |-> "", dtype |-> "Int64",
                  cells |-> [i \in 1..Len(cells) |->
                      IF cells[i] = None THEN None ELSE PyInt(StrToInt(cells[i].v))]]
      [] column_type = "float64" ->
            IF \E i \in 1..Len(cells) : cells[i] # None /\ ~IsFloatText(cells[i].v)
            THEN [err |-> "ValueError", dtype |-> "object", cells |-> cells]
            ELSE [err |-> "", dtype |-> "Float64",
                  cells |-> [i \in 1..Len(cells) |->
                      IF cells[i] = None THEN None ELSE PyFloat64(cells[i].v)]]
      [] column_type = "bool" ->
            [err |-> "", dtype |-> "boolean",
             cells |-> [i \in 1..Len(cells) |->
                 IF cells[i] = PyStr(s_True) THEN PyBool(TRUE)
                 ELSE IF cells[i] = PyStr(s_False) THEN PyBool(FALSE)
                 ELSE None]]
      [] column_type = "set" ->
            [err |-> "", dtype |-> "object", cells |-> cells]
      [] OTHER ->
            [err |-> "NotImplementedError", dtype |-> "object", cells |-> cells]

NoFrame == [err |-> "", columns |-> <<>>, dtype |-> NoTypes, data |-> NoTypes,
            coerced |-> FALSE]

\* pd.read_sql_query(f"SELECT * FROM {table}", con, index_col): every row the
\* connection has inserted, committed or not.
read_sql_query(tb, index_col) ==
    IF ~tb.exists THEN [NoFrame EXCEPT !.err = "DatabaseError"]
    ELSE IF index_col \notin Range(tb.cols) THEN [NoFrame EXCEPT !.err = "KeyError"]
    ELSE LET columns == SelectSeq(tb.cols, LAMBDA c : c # index_col) IN
         [err |-> "", columns |-> columns,
          dtype |-> [c \in Range(columns) |-> "object"],
          data |-> [c \in Range(columns) |->
                      [i \in 1..Len(tb.rows) |-> Cell(tb.rows[i], c)]],
          coerced |-> FALSE]

\* lib.py:374-389  the loop over df.columns, from the i-th column on.
RECURSIVE ConvertColumns(_, _, _)
ConvertColumns(df, types, i) ==
    IF i > Len(df.columns) THEN [df EXCEPT !.coerced = TRUE]
    ELSE LET c == df.columns[i] IN
         IF c \notin DOMAIN types THEN [df EXCEPT !.err = "KeyError"]
         ELSE LET r == ConvertColumn(types[c], df.data[c]) IN
              IF r.err # "" THEN [df EXCEPT !.err = r.err]
              ELSE ConvertColumns([df EXCEPT !.dtype[c] = r.dtype,
                                             !.data[c] = r.cells], types, i + 1)

\* lib.py:370-391  the DataFrame written to output_file, or the exception.
convert_db_to_parquet(types, tb, index_col) ==
    LET df == read_sql_query(tb, index_col) IN
    IF df.err # "" THEN df ELSE ConvertColumns(df, types, 1)

----------------------------------------------------------------------------
(* mods4pandas.py: the structural linker pages_to_dict                     *)
(*                                                                         *)
(* A METS document is given by what the function's queries read of it:     *)
(*   recordIdentifier  the texts the PPN XPath matches, in document order   *)
(*   phys     structMap[@TYPE="PHYSICAL"]: present, and its child divs,     *)
(*            each [TYPE, pages], a page being [ID, TYPE, children] and a   *)
(*            child [tag, FILEID]                                           *)
(*   logical  structMap[@TYPE="LOGICAL"]: present, and its mets:div         *)
(*            descendants in document order, each [ID, TYPE, parent], with  *)
(*            parent the index of the enclosing div, 0 under the structMap  *)
(*   fileSec  present, and its fileGrps, each [USE, files], a file being    *)
(*            [ID, href]                                                    *)
(*   smLinks  the smLinks of the structLink, each [from, to]                *)

s_ppn == <<"p","p","n">>
s_ID == <<"I","D">>
s_physSequence == <<"p","h","y","s","S","e","q","u","e","n","c","e">>
s_page == <<"p","a","g","e">>
s_fileGrp_ == <<"f","i","l","e","G","r","p","_">>
s__file_FLocat_href == <<"_","f","i","l","e","_","F","L","o","c","a","t","_","h","r","e","f">>
s_structMap_LOGICAL_TYPE_ == <<"s","t","r","u","c","t","M","a","p","-","L","O","G","I","C","A","L","_","T","Y","P","E","_">>

\* Mutant of MultivolumeTypes: only the first of the four types is looked for.
MultivolumeTypesFirstOnly ==
    { <<"m","u","l","t","i","v","o","l","u","m","e","_","w","o","r","k">> }

\* lines 276-279
MultivolumeTypes ==
    { <<"m","u","l","t","i","v","o","l","u","m","e","_","w","o","r","k">>,
      <<"M","u","l","t","i","v","o","l","u","m","e","W","o","r","k">>,
      <<"m","u","l","t","i","v","o","l","u","m","e","_","m","a","n","u","s","c","r","i","p","t">>,
      <<"p","e","r","i","o","d","i","c","a","l">> }

PagesError(e) == [err |-> e, pages |-> <<>>]

\* Mutant of mets_file_by_ID: every ID gives the first file of the fileSec.
mets_file_by_IDFirstFile(fileSec, ID) == <<1, 1>>

\* lines 294-300: mets_file_by_ID[ID] is the last file with that ID; the
\* result is <<index of the fileGrp, index of the file>>, <<>> when missing.
RECURSIVE AllFiles(_, _)
AllFiles(fileGrps, g) ==
    IF g > Len(fileGrps) THEN <<>>
    ELSE [j \in 1..Len(fileGrps[g].files) |-> <<g, j>>] \o AllFiles(fileGrps, g + 1)

mets_file_by_ID(fileSec, ID) ==
    LET all == AllFiles(fileSec.fileGrps, 1)
        hits == {n \in 1..Len(all) :
                    fileSec.fileGrps[all[n][1]].files[all[n][2]].ID = ID}
    IN  IF hits = {} THEN <<>>
        ELSE all[CHOOSE n \in hits : \A m \in hits : m <= n]

\* lines 317-326: the file pointers of a page, from the i-th child on.
RECURSIVE FilePointers(_, _, _, _)
FilePointers(mets, page, i, page_dict) ==
    IF i > Len(page.children) THEN [err |-> "", d |-> page_dict]
    ELSE LET fptr == page.children[i] IN
         IF fptr.tag # "fptr" THEN [err |-> "AssertionError", d |-> page_dict]
         ELSE IF fptr.FILEID = Absent \/ fptr.FILEID = <<>>
         THEN [err |-> "AssertionError", d |-> page_dict]
         ELSE LET at == mets_file_by_ID(mets.fileSec, fptr.FILEID) IN
              IF at = <<>> THEN [err |-> "KeyError", d |-> page_dict]
              ELSE LET grp == mets.fileSec.fileGrps[at[1]]
                       file_ == grp.files[at[2]]
                   IN  FilePointers(mets, page, i + 1,
                           DPut(page_dict,
                                s_fileGrp_ \o Fmt(grp.USE) \o s__file_FLocat_href,
                                AttrValue(file_.href)))

\* lines 306-308: get_mets_div, the indices of the divs of the logical
\* structMap with the given ID.
get_mets_div(mets, ID) ==
    {n \in 1..Len(mets.logical.divs) : mets.logical.divs[n].ID = ID}

\* lines 328-347: get_struct_log.  targets.extend(None) raises TypeError
\* for an smLink without xlink:from.
SmLinksTo(mets, to_phys) ==
    SelectSeq(mets.smLinks, LAMBDA l : l.to # Absent /\ l.to = Fmt(to_phys))

get_struct_log(mets, to_phys) ==
    LET sm_links == SmLinksTo(mets, to_phys) IN
    IF \E n \in 1..Len(sm_links) :
           sm_links[n].from = Absent \/ sm_links[n].from = <<>>
    THEN [err |-> "TypeError", targets |-> {}]
    ELSE [err |-> "",
          targets |-> UNION {get_mets_div(mets, sm_links[n].from) :
                                n \in 1..Len(sm_links)}]

\* lines 353-356: get_struct_log_parents, the enclosing divs of a div.
RECURSIVE get_struct_log_parents(_, _)
get_struct_log_parents(mets, n) ==
    LET parent == mets.logical.divs[n].parent IN
    IF parent = 0 THEN {}
    ELSE {parent} \cup get_struct_log_parents(mets, parent)

\* Mutant of AddParents: only the directly linked divs are kept.
AddParentsNone(mets, struct_divs) == struct_divs

\* lines 358-361
AddParents(mets, struct_divs) ==
    struct_divs \cup UNION {get_struct_log_parents(mets, n) : n \in struct_divs}

\* The order in which Python iterates over the set struct_divs (a set of
\* elements, hashed by identity): one of the orders the run may take.
IterationOrder(S, order) ==
    LET RECURSIVE Asc(_)
        Asc(T) == IF T = {} THEN <<>>
                  ELSE LET m == SetMin(T) IN <<m>> \o Asc(T \ {m})
        asc == Asc(S)
    IN  IF order = "asc" THEN asc
        ELSE [i \in 1..Len(asc) |-> asc[Len(asc) + 1 - i]]

\* lines 363-367: the indicator variables, from the i-th div of the
\* iteration on.
RECURSIVE Indicators(_, _, _, _)
Indicators(mets, divs, i, page_dict) ==
    IF i > Len(divs) THEN [err |-> "", d |-> page_dict]
    ELSE LET TYPE == mets.logical.divs[divs[i]].TYPE IN
         IF TYPE = Absent THEN [err |-> "AttributeError", d |-> page_dict]
         ELSE IF Lower(TYPE) = <<>> THEN [err |-> "AssertionError", d |-> page_dict]
         ELSE Indicators(mets, divs, i + 1,
                  DPut(page_dict, s_structMap_LOGICAL_TYPE_ \o Lower(TYPE),
                       PyInt(1)))

\* lines 310-369: the body of the loop over the pages.
PageDict(mets, page, order) ==
    IF page.TYPE # s_page THEN [err |-> "AssertionError", d |-> <<>>]
    ELSE LET d0 == <<[k |-> s_ppn, v |-> PyStr(mets.recordIdentifier[1])],
                     [k |-> s_ID, v |-> AttrValue(page.ID)]>>
             d1 == FilePointers(mets, page, 1, d0)
         IN  IF d1.err # "" THEN d1
             ELSE LET log_ == get_struct_log(mets, page.ID) IN
                  IF log_.err # "" THEN [err |-> log_.err, d |-> d1.d]
                  ELSE Indicators(mets,
                           IterationOrder(AddParents(mets, log_.targets), order),
                           1, d1.d)

RECURSIVE PageLoop(_, _, _, _)
PageLoop(mets, pages, order, result) ==
    IF Len(pages) = 0 THEN [err |-> "", pages |-> result]
    ELSE LET r == PageDict(mets, Head(pages), order) IN
         IF r.err # "" THEN PagesError(r.err)
         ELSE PageLoop(mets, Tail(pages), order, Append(result, r.d))

\* lines 261-371
pages_to_dict(mets, order) ==
    IF mets.recordIdentifier = <<>> THEN PagesError("AttributeError")
    ELSE IF ~mets.phys.present
    THEN IF ~mets.logical.present THEN PagesError("AttributeError")
         ELSE IF \E n \in 1..Len(mets.logical.divs) :
                    /\ mets.logical.divs[n].parent = 0
                    /\ mets.logical.divs[n].TYPE \in MultivolumeTypes
         THEN [err |-> "", pages |-> <<>>]
         ELSE PagesError("ValueError")
    ELSE IF ~mets.logical.present THEN PagesError("ValueError")
    ELSE IF ~mets.fileSec.present THEN PagesError("ValueError")
    ELSE IF mets.phys.divs = <<>> THEN PagesError("IndexError")
    ELSE IF mets.phys.divs[1].TYPE # s_physSequence THEN PagesError("AssertionError")
    ELSE PageLoop(mets, mets.phys.divs[1].pages, order, <<>>)

----------------------------------------------------------------------------
(* The sink on its own: any sequence of insert_into_db calls on one table,  *)
(* closed by the coercion pass.                                            *)

Tables == {"mods_info", "page_info", "alto_info"}

MaxInserts == 3

k_a == <<"a">>
k_b == <<"b">>
k_bad == <<"c", ".">>
k_newline == <<"c", "\n">>
s_x == <<"x">>

\* The records handed to the sink, each with the statement the store
\* refuses during the call.
SinkCalls ==
    LET D1(k, v) == <<[k |-> k, v |-> v]>>
        D2(k1, v1, k2, v2) == <<[k |-> k1, v |-> v1], [k |-> k2, v |-> v2]>>
        C(d, f) == [d |-> d, fault |-> f]
    IN  { C(D1(k_a, v), "none") :
            v \in {None, PyInt(1), PyStr(s_x), PyBool(TRUE)} }
        \cup { C(D1(k_b, v), "none") :
            v \in {PySet({s_x}), PyFloat64(<<"0", ".", "5">>)} }
        \cup { C(D2(k_a, PyInt(1), k_b, None), f) :
            f \in {"none", "create", "alter", "insert"} }
        \cup { C(D2(k_b, PyStr(s_x), k_a, PyInt(2)), f) : f \in {"none", "alter"} }
        \cup { C(D2(k_a, PyInt(1), k_bad, PyStr(s_x)), "none"),
               C(D1(k_bad, PyStr(s_x)), "none"),
               C(D1(k_newline, PyStr(s_x)), "none") }

InitCommon ==
    /\ current_columns = [t \in Tables |-> <<>>]
    /\ current_columns_types = [t \in Tables |-> NoTypes]
    /\ db = [t \in Tables |-> NoTable]
    /\ log = <<>>
    /\ csv = <<>>
    /\ out = [t \in Tables |-> NoFrame]
    /\ idx = 0

InitSink ==
    /\ InitCommon
    /\ mode = "sink"
    /\ pc = "insert"
    /\ files = <<>>
    /\ arg = <<>>
    /\ ret = <<>>

\* One call insert_into_db(con, "alto_info", d), followed by con.commit()
\* when it returns, as both drivers do.
SinkInsert ==
    /\ mode = "sink" /\ pc = "insert" /\ Len(log) < MaxInserts
    /\ \E c \in SinkCalls :
         LET S == insert_into_db(SinkOf("alto_info"), c.d, c.fault) IN
         /\ current_columns' = [current_columns EXCEPT !["alto_info"] = S.cols]
         /\ current_columns_types' =
                [current_columns_types EXCEPT !["alto_info"] = S.types]
         /\ db' = [db EXCEPT !["alto_info"] =
                      IF S.err = "" THEN Commit(S.tb) ELSE S.tb]
         /\ log' = Append(log, [d |-> c.d, err |-> S.err, at |-> S.at,
                                before |-> current_columns_types["alto_info"]])
    /\ UNCHANGED <<mode, pc, files, idx, csv, out, arg, ret>>

\* convert_db_to_parquet(con, "alto_info", index_col, output_file)
SinkConvert ==
    /\ mode = "sink" /\ pc = "insert"
    /\ \E index_col \in {k_a, k_b} :
         out' = [out EXCEPT !["alto_info"] =
                   convert_db_to_parquet(current_columns_types["alto_info"],
                                         db["alto_info"], index_col)]
    /\ pc' = "done"
    /\ UNCHANGED <<current_columns, current_columns_types, db, mode, files,
                   idx, log, csv, arg, ret>>

NextSink == SinkInsert \/ SinkConvert

SpecSink == InitSink /\ [][NextSink]_vars

----------------------------------------------------------------------------
(* pages_to_dict on its own: one call on a bounded METS document           *)

MaxDivs == 3

DivIDs == [n \in 1..9 |-> <<"L", DigitChars[n + 1]>>]
DivTypes == {<<"M">>, <<"t">>, <<"i">>}
id_P1 == <<"P", "1">>
id_P2 == <<"P", "2">>
id_F1 == <<"F", "1">>
id_F2 == <<"F", "2">>
s_ppn1 == <<"P", "P", "N", "1">>
s_url == <<"f", ":", "/", "a">>

\* The logical structure maps of n divs: every tree shape, every typing.
RECURSIVE LogicalDivs(_)
LogicalDivs(n) ==
    IF n = 0 THEN {<<>>}
    ELSE {Append(divs, [ID |-> DivIDs[n], TYPE |-> t, parent |-> p]) :
             divs \in LogicalDivs(n - 1), t \in DivTypes, p \in 0..(n - 1)}

\* The structLink: the first page is linked from any set of the divs, the
\* second page from the last div.
SmLinkSets(n) ==
    {SetToSeq({[from |-> DivIDs[m], to |-> id_P1] : m \in L}
              \cup {[from |-> DivIDs[m], to |-> id_P2] : m \in {n} \ {0}}) :
        L \in SUBSET (1..n)}

FileSec1 ==
    [present |-> TRUE,
     fileGrps |-> << [USE |-> <<"P">>, files |-> <<[ID |-> id_F1, href |-> s_url]>>],
                     [USE |-> <<"T">>, files |-> <<[ID |-> id_F2, href |-> Absent]>>] >>]

PhysicalTwoPages ==
    [present |-> TRUE,
     divs |-> << [TYPE |-> s_physSequence,
                  pages |-> << [ID |-> id_P1, TYPE |-> s_page,
                                children |-> << [tag |-> "fptr", FILEID |-> id_F1],
                                                [tag |-> "fptr", FILEID |-> id_F2] >>],
                               [ID |-> id_P2, TYPE |-> s_page,
                                children |-> << [tag |-> "fptr", FILEID |-> id_F1] >>] >>] >>]

MetsDocument(divs, links) ==
    [recordIdentifier |-> <<s_ppn1>>,
     phys |-> PhysicalTwoPages,
     logical |-> [present |-> TRUE, divs |-> divs],
     fileSec |-> FileSec1,
     smLinks |-> links]

\* Documents that differ in the physical sequence: no page, one page, the
\* pages in the other order, a page without file pointer.
PageNoFile == [ID |-> <<"P", "3">>, TYPE |-> s_page, children |-> <<>>]
PhysicalOf(pages) ==
    [present |-> TRUE, divs |-> <<[TYPE |-> s_physSequence, pages |-> pages]>>]
PhysicalSequences ==
    LET p == PhysicalTwoPages.divs[1].pages IN
    {<<>>, <<p[2]>>, <<p[2], p[1]>>, <<PageNoFile, p[1]>>, <<p[1], p[2], PageNoFile>>}
PagedDocuments ==
    {[MetsDocument(<<[ID |-> DivIDs[1], TYPE |-> <<"M">>, parent |-> 0]>>,
                   <<[from |-> DivIDs[1], to |-> id_P1]>>)
        EXCEPT !.phys = PhysicalOf(pages)] : pages \in PhysicalSequences}

\* Documents without structMap[@TYPE="PHYSICAL"]: with and without the
\* logical structMap, the record identifier and the fileSec; the logical
\* structMap empty, or with one div of a container type or of another type,
\* directly under the structMap or inside a div of another type.
ContainerTypes ==
    { <<"m","u","l","t","i","v","o","l","u","m","e","_","w","o","r","k">>,
      <<"M","u","l","t","i","v","o","l","u","m","e","W","o","r","k">>,
      <<"m","u","l","t","i","v","o","l","u","m","e","_","m","a","n","u","s","c","r","i","p","t">>,
      <<"p","e","r","i","o","d","i","c","a","l">> }
ContainerDocuments ==
    LET Top(ty) == <<[ID |-> DivIDs[1], TYPE |-> ty, parent |-> 0]>>
        Nested(ty) == <<[ID |-> DivIDs[1], TYPE |-> <<"M">>, parent |-> 0],
                        [ID |-> DivIDs[2], TYPE |-> ty, parent |-> 1]>>
        Types == ContainerTypes \cup {<<"M">>}
        Logicals == {[present |-> FALSE, divs |-> <<>>],
                     [present |-> TRUE, divs |-> <<>>]}
                    \cup {[present |-> TRUE, divs |-> Top(ty)] : ty \in Types}
                    \cup {[present |-> TRUE, divs |-> Nested(ty)] : ty \in Types}
    IN  {[recordIdentifier |-> rid,
          phys |-> [present |-> FALSE, divs |-> <<>>],
          logical |-> lg,
          fileSec |-> fs,
          smLinks |-> <<>>] :
            rid \in {<<>>, <<s_ppn1>>}, lg \in Logicals,
            fs \in {FileSec1, [present |-> FALSE, fileGrps |-> <<>>]}}

NoPages == [err |-> "", pages |-> <<>>]

InitPages ==
    /\ InitCommon
    /\ mode = "pages"
    /\ pc = "call"
    /\ files = <<>>
    /\ \/ \E n \in 0..MaxDivs :
             \E divs \in LogicalDivs(n) : \E links \in SmLinkSets(n) :
                arg = MetsDocument(divs, links)
       \/ arg \in PagedDocuments
       \/ arg \in ContainerDocuments
    /\ ret = NoPages

\* page_info_doc = pages_to_dict(mets)
PagesCall ==
    /\ mode = "pages" /\ pc = "call"
    /\ \E order \in {"asc", "desc"} : ret' = pages_to_dict(arg, order)
    /\ pc' = "done"
    /\ UNCHANGED <<current_columns, current_columns_types, db, mode, files,
                   idx, log, csv, out, arg>>

NextPages == PagesCall

SpecPages == InitPages /\ [][NextPages]_vars

----------------------------------------------------------------------------
(* Claims on the sink, checked under SpecSink *)

IsPrefix(s, t) == Len(s) <= Len(t) /\ SubSeq(t, 1, Len(s)) = s

\* C4: the Column Schema of a table only grows.  Every step keeps each
\* column of current_columns[table] at its position (the old list is a
\* prefix of the new one) and keeps the type recorded for every column of
\* current_columns_types[table], whether the call returns or raises.
C4_SchemaOnlyGrows ==
    [][\A t \in Tables :
          /\ IsPrefix(current_columns[t], current_columns'[t])
          /\ \A k \in DOMAIN current_columns_types[t] :
                /\ k \in DOMAIN current_columns_types'[t]
                /\ current_columns_types'[t][k] = current_columns_types[t][k]]_vars

\* A later call brought a value of another type for a typed column, a call
\* raised, and the schema has grown by a column after the table's creation.
C4_Witness ==
    /\ Len(current_columns["alto_info"]) >= 2
    /\ \E i \in 1..Len(log) : log[i].err # ""
    /\ \E i \in 1..Len(log) : \E k \in DOMAIN log[i].before :
          /\ DHas(log[i].d, k) /\ DGet(log[i].d, k).t # log[i].before[k]
          /\ log[i].err = ""
    /\ \E i \in 1..Len(log) :
          /\ log[i].err = "" /\ log[i].before # NoTypes
          /\ ~(Range(DKeys(log[i].d)) \subseteq DOMAIN log[i].before)

\* The i-th call brings, for a column whose recorded type is that of a
\* present value, a present value of another native type.
TypeConflict(i) ==
    \E k \in DOMAIN log[i].before :
        /\ log[i].before[k] # "NoneType"
        /\ DHas(log[i].d, k)
        /\ DGet(log[i].d, k) # None
        /\ DGet(log[i].d, k).t # log[i].before[k]

\* C5 (as claimed): a call that brings a present value of another native
\* type for a column whose type is recorded ends in an error, and stores
\* no row.
C5_ConflictSurfaced ==
    \A i \in 1..Len(log) : TypeConflict(i) => log[i].err # ""

\* The calls up to the i-th that reached the "Save types" step.
ReachedSaveTypes(i) == log[i].err = "" \/ log[i].at = "insert"

\* C6 (as claimed): the type recorded for a column is the type of the first
\* present (non-None) value that a call brought for it; a column for which
\* only None has arrived has no recorded type.
C6_FirstPresentValueType ==
    \A k \in DOMAIN current_columns_types["alto_info"] :
        \E i \in 1..Len(log) :
            /\ ReachedSaveTypes(i)
            /\ DHas(log[i].d, k) /\ DGet(log[i].d, k) # None
            /\ \A j \in 1..(i - 1) :
                  ReachedSaveTypes(j) /\ DHas(log[j].d, k)
                      => DGet(log[j].d, k) = None
            /\ current_columns_types["alto_info"][k] = DGet(log[i].d, k).t

KnownTypes == {"str", "int", "float64", "bool", "set"}

\* The columns the coercion pass of the finished run went through.
FrameColumns == out["alto_info"].columns
SetColumns ==
    {c \in Range(FrameColumns) :
        /\ c \in DOMAIN current_columns_types["alto_info"]
        /\ current_columns_types["alto_info"][c] = "set"}

----------------------------------------------------------------------------
(* Claims on the structural linker, checked under SpecPages *)

PhysicalPages == IF arg.phys.divs = <<>> THEN <<>> ELSE arg.phys.divs[1].pages
LogicalDivsOf == arg.logical.divs

HasPrefix(k, prefix) ==
    Len(k) >= Len(prefix) /\ SubSeq(k, 1, Len(prefix)) = prefix

\* The <type> parts of the structMap-LOGICAL_TYPE_<type> keys of a record.
IndicatorKeys(d) ==
    {k \in Range(DKeys(d)) : HasPrefix(k, s_structMap_LOGICAL_TYPE_)}
IndicatorTypes(d) ==
    {SubSeq(k, Len(s_structMap_LOGICAL_TYPE_) + 1, Len(k)) : k \in IndicatorKeys(d)}

\* The divs that an smLink ties to the page, and the divs enclosing a div.
DirectlyLinked(page) ==
    {n \in 1..Len(LogicalDivsOf) :
        \E l \in Range(arg.smLinks) :
            l.to = page.ID /\ l.from = LogicalDivsOf[n].ID}
Encloses(a, n) ==
    \E path \in UNION {[1..len -> 1..Len(LogicalDivsOf)] : len \in 2..Len(LogicalDivsOf)} :
        /\ path[1] = n /\ path[Len(path)] = a
        /\ \A j \in 1..(Len(path) - 1) : LogicalDivsOf[path[j]].parent = path[j + 1]
ExpectedTypes(page) ==
    {Lower(LogicalDivsOf[n].TYPE) :
        n \in {n \in 1..Len(LogicalDivsOf) :
                  \/ n \in DirectlyLinked(page)
                  \/ \E m \in DirectlyLinked(page) : Encloses(n, m)}}

\* C9: in the list that pages_to_dict returns, the record of every physical
\* page has the indicator keys structMap-LOGICAL_TYPE_<type> for exactly the
\* lower-cased TYPEs of the divs linked to the page by an smLink and of the
\* divs that enclose those; it has no other indicator key.
C9_IndicatorsAreAncestorClosure ==
    pc = "done" /\ ret.err = "" =>
        /\ Len(ret.pages) = Len(PhysicalPages)
        /\ \A i \in 1..Len(PhysicalPages) :
              IndicatorTypes(ret.pages[i]) = ExpectedTypes(PhysicalPages[i])

\* The page is linked only to a leaf div of type i under divs of types M
\* and t, and its record has the three indicators m, t and i.
C9_Witness ==
    /\ pc = "done" /\ ret.err = "" /\ Len(LogicalDivsOf) = 3
    /\ DirectlyLinked(PhysicalPages[1]) = {3}
    /\ LogicalDivsOf[3].parent = 2 /\ LogicalDivsOf[2].parent = 1
    /\ LogicalDivsOf[1].TYPE = <<"M">> /\ LogicalDivsOf[2].TYPE = <<"t">>
    /\ LogicalDivsOf[3].TYPE = <<"i">>
    /\ IndicatorTypes(ret.pages[1]) = {<<"m">>, <<"t">>, <<"i">>}

\* C10 (as claimed): every indicator of a returned page record holds the
\* boolean True, a value of type bool.
C10_IndicatorIsBooleanTrue ==
    pc = "done" /\ ret.err = "" =>
        \A i \in 1..Len(ret.pages) : \A k \in IndicatorKeys(ret.pages[i]) :
            DGet(ret.pages[i], k) = PyBool(TRUE)

FileKeys(d) == {k \in Range(DKeys(d)) : HasPrefix(k, s_fileGrp_)}

----------------------------------------------------------------------------
(* lib.py: elements, sorted_groupby and the TagGroup toolkit               *)
(*                                                                         *)
(* An element is [tag, attrib, text, children]: tag is the text            *)
(* "{namespace}localname", attrib the set of <<name, value>> pairs, text    *)
(* the element's text (Absent for None) and children the child elements    *)
(* in document order.  A TagGroup is [tag, group, err, warns]: err is the   *)
(* exception a method of the chain has raised ("" for none), and warns the  *)
(* warnings emitted so far.  What ends a chain, and what a converter        *)
(* returns, is [err, v, warns] with v the value.                           *)

Element(tag, attrib, text_, children) ==
    [tag |-> tag, attrib |-> attrib, text |-> text_, children |-> children]

\* F applied to the value of x: the argument of a call is evaluated once,
\* before the call.
Call(F(_), x) == CHOOSE r \in {F(v) : v \in {x}} : TRUE

\* lib.py:22-27 and lib.py:282-287
ns_mets == <<"h","t","t","p",":","/","/","w","w","w",".","l","o","c",".","g","o","v","/","M","E","T","S","/">>
ns_mods == <<"h","t","t","p",":","/","/","w","w","w",".","l","o","c",".","g","o","v","/","m","o","d","s","/","v","3">>
ns_alto_ccs == <<"h","t","t","p",":","/","/","s","c","h","e","m","a",".","c","c","s","-","g","m","b","h",".","c","o","m","/","A","L","T","O">>
ns_alto == <<"h","t","t","p",":","/","/","w","w","w",".","l","o","c",".","g","o","v","/","s","t","a","n","d","a","r","d","s","/","a","l","t","o","/">>
ns_alto_v2 == <<"h","t","t","p",":","/","/","w","w","w",".","l","o","c",".","g","o","v","/","s","t","a","n","d","a","r","d","s","/","a","l","t","o","/","n","s","-","v","2","#">>
ns_alto_v4 == <<"h","t","t","p",":","/","/","w","w","w",".","l","o","c",".","g","o","v","/","s","t","a","n","d","a","r","d","s","/","a","l","t","o","/","n","s","-","v","4","#">>
AltoNamespaces == {ns_alto_ccs, ns_alto, ns_alto_v2, ns_alto_v4}

QTag(namespace, localname) == <<"{">> \o namespace \o <<"}">> \o localname

\* ET.QName(tag).namespace and ET.QName(tag).localname
BraceEnd(tag) == SetMin({i \in 1..Len(tag) : tag[i] = "}"})
QNameNamespace(tag) ==
    IF tag # <<>> /\ tag[1] = "{" THEN SubSeq(tag, 2, BraceEnd(tag) - 1)
    ELSE Absent
QNameLocalname(tag) ==
    IF tag # <<>> /\ tag[1] = "{" THEN SubSeq(tag, BraceEnd(tag) + 1, Len(tag))
    ELSE tag

\* e.attrib.get(name)
AttrGet(e, name) ==
    IF \E p \in e.attrib : p[1] = name
    THEN (CHOOSE p \in e.attrib : p[1] = name)[2]
    ELSE Absent

\* The order of Python's str comparison: the printable ASCII characters
\* of the texts of this module, by code point.
AsciiChars ==
    <<" ","!","\"","#","$","%","&","'","(",")","*","+",",","-",".","/">>
    \o DigitChars \o <<":",";","<","=",">","?","@">> \o UpperChars
    \o <<"[","\\","]","^","_">> \o LowerChars \o <<"{","|","}","~">>
Ord(c) == CHOOSE i \in 1..Len(AsciiChars) : AsciiChars[i] = c
StrLess(a, b) ==
    LET n == IF Len(a) < Len(b) THEN Len(a) ELSE Len(b)
        d == {i \in 1..n : a[i] # b[i]}
    IN  IF d = {} THEN Len(a) < Len(b)
        ELSE Ord(a[SetMin(d)]) < Ord(b[SetMin(d)])

\* sorted(iterable, key=key): a stable sort on a str key.
sorted(iterable, key(_)) ==
    LET n == Len(iterable)
        Pos(i) == 1 + Cardinality({j \in 1..n :
                          StrLess(key(iterable[j]), key(iterable[i]))})
                    + Cardinality({j \in 1..(i - 1) :
                          key(iterable[j]) = key(iterable[i])})
    IN  [p \in 1..n |-> iterable[CHOOSE i \in 1..n : Pos(i) = p]]

\* itertools.groupby: the runs of consecutive members with equal key.
groupby(s, key(_)) ==
    LET starts == {i \in 1..Len(s) : i = 1 \/ key(s[i]) # key(s[i - 1])}
        st == IterationOrder(starts, "asc")
        End(n) == IF n = Len(st) THEN Len(s) ELSE st[n + 1] - 1
    IN  [n \in 1..Len(st) |->
            [tag |-> key(s[st[n]]), group |-> SubSeq(s, st[n], End(n))]]

\* lib.py:263-270
sorted_groupby(iterable, key(_)) ==
    Call(LAMBDA s : groupby(s, key), sorted(iterable, key))

\* attrgetter('tag')
Tag(e) == e.tag

RECURSIVE Concat(_)
Concat(ss) == IF Len(ss) = 0 THEN <<>> ELSE Head(ss) \o Concat(Tail(ss))

\* The order in which Python iterates over a set of str (hashes are salted
\* per process): one of the orders the run may take.
StrSetOrder(S, order) ==
    LET asc == sorted(SetToSeq(S), LAMBDA x : x) IN
    IF order = "asc" THEN asc
    ELSE [i \in 1..Len(asc) |-> asc[Len(asc) + 1 - i]]

\* bool(x)
Truthy(x) ==
    CASE x.t = "NoneType" -> FALSE
      [] x.t = "str" -> x.v # <<>>
      [] x.t = "set" -> x.v # {}
      [] x.t = "dict" -> x.v # <<>>
      [] x.t = "int" -> x.v # 0
      [] x.t = "bool" -> x.v
      [] OTHER -> TRUE

\* lib.py:34-36
TagGroup(tag, group) == [tag |-> tag, group |-> group, err |-> "", warns |-> <<>>]

\* The chain ends with the exception the TagGroup carries.
Failed(self) == [err |-> self.err, v |-> None, warns |-> self.warns]

\* lib.py:44-47
is_singleton(self) ==
    IF self.err # "" THEN self
    ELSE IF Len(self.group) # 1
    THEN [self EXCEPT !.err = "ValueError: More than one instance"]
    ELSE self

\* lib.py:52-57; attrib is the set of the attribute dicts that are allowed.
has_attributes(self, attrib) ==
    IF self.err # "" THEN self
    ELSE IF \E i \in 1..Len(self.group) : self.group[i].attrib \notin attrib
    THEN [self EXCEPT !.err = "ValueError: unexpected attributes"]
    ELSE self

\* lib.py:49-50
has_no_attributes(self) == has_attributes(self, {{}})

\* lib.py:82-90; warn = "" stands for warn=None.
filter(self, cond(_), warn) ==
    IF self.err # "" THEN self
    ELSE LET removed == SelectSeq(self.group, LAMBDA e : ~cond(e)) IN
         [tag |-> self.tag,
          group |-> SelectSeq(self.group, cond),
          err |-> "",
          warns |-> self.warns \o
                    (IF warn = "" THEN <<>>
                     ELSE [i \in 1..Len(removed) |->
                             [tag |-> self.tag, message |-> "Filtered element",
                              detail |-> warn]])]

\* Mutant of force_singleton: the last member is the one that is kept.
force_singleton_last(self, warn) ==
    IF self.err # "" THEN self
    ELSE IF Len(self.group) = 1 THEN self
    ELSE [tag |-> self.tag,
          group |-> IF self.group = <<>> THEN <<>>
                    ELSE <<self.group[Len(self.group)]>>,
          err |-> "",
          warns |-> self.warns \o
                    (IF warn
                     THEN <<[tag |-> self.tag,
                             message |-> "Forced single instance",
                             detail |-> ""]>>
                     ELSE <<>>)]

\* lib.py:92-98
force_singleton(self, warn) ==
    IF self.err # "" THEN self
    ELSE IF Len(self.group) = 1 THEN self
    ELSE [tag |-> self.tag,
          group |-> IF self.group = <<>> THEN <<>> ELSE <<self.group[1]>>,
          err |-> "",
          warns |-> self.warns \o
                    (IF warn
                     THEN <<[tag |-> self.tag,
                             message |-> "Forced single instance",
                             detail |-> ""]>>
                     ELSE <<>>)]

\* e.attrib[name] = value
SetAttr(e, name, value) ==
    [e EXCEPT !.attrib = {p \in @ : p[1] # name} \cup {<<name, value>>}]

s_encoding_iso8601 == <<"i","s","o","8","6","0","1">>
s_encoding_w3cdtf == <<"w","3","c","d","t","f">>

\* What "$" leaves to match: the text without one newline at its end.
BeforeEnd(s) ==
    IF Len(s) >= 1 /\ s[Len(s)] = "\n" THEN SubSeq(s, 1, Len(s) - 1) ELSE s

AllDigits(s, from, to) == \A i \in from..to : s[i] \in Digits

\* Mutant of RE_ISO8601_DATE: the century form with XX is not matched.
RE_ISO8601_DATE_NoCentury(text_) ==
    LET s == BeforeEnd(text_) IN
    /\ Len(s) \in {4, 10}
    /\ AllDigits(s, 1, 4)
    /\ Len(s) = 10 =>
          /\ s[5] = "-" /\ AllDigits(s, 6, 7) /\ s[8] = "-" /\ AllDigits(s, 9, 10)

\* lib.py:100  re.match(RE_ISO8601_DATE, text)
RE_ISO8601_DATE(text_) ==
    LET s == BeforeEnd(text_) IN
    /\ Len(s) \in {4, 10}
    /\ AllDigits(s, 1, 2)
    /\ AllDigits(s, 3, 4) \/ SubSeq(s, 3, 4) = <<"X", "X">>
    /\ Len(s) = 10 =>
          /\ s[5] = "-" /\ AllDigits(s, 6, 7) /\ s[8] = "-" /\ AllDigits(s, 9, 10)

\* lib.py:101  re.match(RE_GERMAN_DATE, text)
RE_GERMAN_DATE(text_) ==
    LET s == BeforeEnd(text_) IN
    /\ Len(s) = 10
    /\ AllDigits(s, 1, 2) /\ s[3] = "." /\ AllDigits(s, 4, 5) /\ s[6] = "."
    /\ AllDigits(s, 7, 10)

\* Mutant of GermanDateToIso: the groups are written in the order they have.
GermanDateDayFirst(text_) ==
    SubSeq(text_, 1, 2) \o <<"-">> \o SubSeq(text_, 4, 5) \o <<"-">>
        \o SubSeq(text_, 7, 10)

\* lib.py:124  '{}-{}-{}'.format(m.group('yyyy'), m.group('mm'), m.group('dd'))
GermanDateToIso(text_) ==
    SubSeq(text_, 7, 10) \o <<"-">> \o SubSeq(text_, 4, 5) \o <<"-">>
        \o SubSeq(text_, 1, 2)

DateWarning(self, message, detail) ==
    [tag |-> self.tag, message |-> message, detail |-> detail]

\* lib.py:105-109: the first loop, for one member.
FixEncoding(e) ==
    IF AttrGet(e, "encoding") = s_encoding_w3cdtf
    THEN SetAttr(e, "encoding", s_encoding_iso8601)
    ELSE e

\* lib.py:112-129: the second loop, from the i-th member on; r is
\* [group, warns], the new group and the warnings so far.
RECURSIVE FixDateLoop(_, _, _, _)
FixDateLoop(self, group, i, r) ==
    IF i > Len(group) THEN r
    ELSE LET e == group[i]
             Warn(message, detail) == Append(r.warns, DateWarning(self, message, detail))
             iso == SetAttr(e, "encoding", s_encoding_iso8601)
         IN  Call(LAMBDA r1 : FixDateLoop(self, group, i + 1, r1),
                  IF e.text = Absent
                  THEN [group |-> r.group, warns |-> Warn("Empty date", "")]
                  ELSE IF AttrGet(e, "encoding") = s_encoding_iso8601
                          /\ RE_ISO8601_DATE(e.text)
                  THEN [group |-> Append(r.group, e), warns |-> r.warns]
                  ELSE IF RE_ISO8601_DATE(e.text)
                  THEN [group |-> Append(r.group, iso),
                        warns |-> Warn("Added iso8601 encoding to date", e.text)]
                  ELSE IF RE_GERMAN_DATE(e.text)
                  THEN [group |-> Append(r.group,
                                     [iso EXCEPT !.text = GermanDateToIso(e.text)]),
                        warns |-> Warn("Converted date to iso8601 encoding", e.text)]
                  ELSE [group |-> Append(r.group, e),
                        warns |-> Warn("Not a iso8601 date", e.text)])

\* lib.py:103-141
fix_date(self) ==
    IF self.err # "" THEN self
    ELSE LET changed == SelectSeq(self.group,
                            LAMBDA e : AttrGet(e, "encoding") = s_encoding_w3cdtf)
             group1 == [i \in 1..Len(self.group) |-> FixEncoding(self.group[i])]
             warns1 == self.warns \o
                       [i \in 1..Len(changed) |->
                           DateWarning(self, "Changed w3cdtf encoding to iso8601", "")]
         IN  Call(LAMBDA r : [self EXCEPT !.group = r.group, !.warns = r.warns],
                  FixDateLoop(self, group1, 1, [group |-> <<>>, warns |-> warns1]))

\* lib.py:67-74: the loop over the group, from the i-th member on.
RECURSIVE TextLoop(_, _, _, _)
TextLoop(group, i, separator, t) ==
    IF i > Len(group) THEN t
    ELSE LET t1 == IF t # <<>> THEN t \o separator ELSE t
             t2 == IF group[i].text # Absent /\ group[i].text # <<>>
                   THEN t1 \o group[i].text ELSE t1
         IN  TextLoop(group, i + 1, separator, t2)

text(self, separator) ==
    IF self.err # "" THEN Failed(self)
    ELSE [err |-> "", v |-> PyStr(TextLoop(self.group, 1, separator, <<>>)),
          warns |-> self.warns]

\* lib.py:76-77; the text None stays in the set as Absent.
text_set(self) ==
    IF self.err # "" THEN Failed(self)
    ELSE [err |-> "",
          v |-> PySet({self.group[i].text : i \in 1..Len(self.group)}),
          warns |-> self.warns]

----------------------------------------------------------------------------
(* mods4pandas.py, alto4pandas.py: the converters.  The rules are those of  *)
(* the tags the documents of this module use; order is the iteration order *)
(* of the sets of this run.                                                *)

s_titleInfo == <<"t","i","t","l","e","I","n","f","o">>
s_title == <<"t","i","t","l","e">>
s_note == <<"n","o","t","e">>
s_name == <<"n","a","m","e">>
s_namePart == <<"n","a","m","e","P","a","r","t">>
s_namePart_ == <<"n","a","m","e","P","a","r","t","-">>
s_language == <<"l","a","n","g","u","a","g","e">>
s_languageTerm == <<"l","a","n","g","u","a","g","e","T","e","r","m">>
s_recordInfo == <<"r","e","c","o","r","d","I","n","f","o">>
s_recordIdentifier == <<"r","e","c","o","r","d","I","d","e","n","t","i","f","i","e","r">>
s_recordIdentifier_dnb_ppn == <<"r","e","c","o","r","d","I","d","e","n","t","i","f","i","e","r","-","d","n","b","-","p","p","n">>
s_identifier == <<"i","d","e","n","t","i","f","i","e","r">>
s_identifier_ == <<"i","d","e","n","t","i","f","i","e","r","-">>
s_mods == <<"m","o","d","s">>
s_gbv_ppn == <<"g","b","v","-","p","p","n">>
s_dnb_ppn == <<"d","n","b","-","p","p","n">>
s_iso639_2b == <<"i","s","o","6","3","9","-","2","b">>
s_code == <<"c","o","d","e">>

s_amdSec == <<"a","m","d","S","e","c">>
s_dmdSec == <<"d","m","d","S","e","c">>
s_metsHdr == <<"m","e","t","s","H","d","r">>
s_structLink == <<"s","t","r","u","c","t","L","i","n","k">>
s_structMap == <<"s","t","r","u","c","t","M","a","p">>
s_fileSec == <<"f","i","l","e","S","e","c">>
s_fileGrp == <<"f","i","l","e","G","r","p">>
s_fileGrp_dash == <<"f","i","l","e","G","r","p","-">>
s__count == <<"-","c","o","u","n","t">>

s_Description == <<"D","e","s","c","r","i","p","t","i","o","n">>
s_MeasurementUnit == <<"M","e","a","s","u","r","e","m","e","n","t","U","n","i","t">>
s_sourceImageInformation == <<"s","o","u","r","c","e","I","m","a","g","e","I","n","f","o","r","m","a","t","i","o","n">>
s_fileName == <<"f","i","l","e","N","a","m","e">>
s_Styles == <<"S","t","y","l","e","s">>

s_dateIssued == <<"d","a","t","e","I","s","s","u","e","d">>
s_dateCreated == <<"d","a","t","e","C","r","e","a","t","e","d">>
s_yes == <<"y","e","s">>
s_edition == <<"e","d","i","t","i","o","n">>
s_publisher == <<"p","u","b","l","i","s","h","e","r">>
s_location == <<"l","o","c","a","t","i","o","n">>
s_physicalLocation == <<"p","h","y","s","i","c","a","l","L","o","c","a","t","i","o","n">>
s_shelfLocator == <<"s","h","e","l","f","L","o","c","a","t","o","r">>
s_originInfo == <<"o","r","i","g","i","n","I","n","f","o">>
s_originInfo_ == <<"o","r","i","g","i","n","I","n","f","o","-">>
s_former == <<"f","o","r","m","e","r">>
s_current == <<"c","u","r","r","e","n","t">>
s_digitization == <<"d","i","g","i","t","i","z","a","t","i","o","n">>
s_publication == <<"p","u","b","l","i","c","a","t","i","o","n">>
s_production == <<"p","r","o","d","u","c","t","i","o","n">>
s_Staatsbibliothek_zu_Berlin == <<"S","t","a","a","t","s","b","i","b","l","i","o","t","h","e","k"," ","z","u"," ","B","e","r","l","i","n">>
s_Electronic_ed == <<"[","E","l","e","c","t","r","o","n","i","c"," ","e","d",".","]">>

NoValue == [err |-> "", v |-> <<>>, warns |-> <<>>]

\* e.find('mods:<name>', ns): the first child of that name, if any, as a
\* sequence of at most one element.
Find(e, name) ==
    LET found == SelectSeq(e.children, LAMBDA c : c.tag = QTag(ns_mods, name))
    IN  IF found = <<>> THEN <<>> ELSE <<found[1]>>

\* Mutant of FixEventTypeOf: an issued origin is looked for first.
FixEventTypeOfIssuedFirst(e) ==
    LET publisher == Find(e, s_publisher)
        edition == Find(e, s_edition)
    IN  IF AttrGet(e, "eventType") # Absent THEN [e |-> e, warn |-> ""]
        ELSE IF Find(e, s_dateIssued) # <<>>
        THEN [e |-> SetAttr(e, "eventType", s_publication),
              warn |-> "Fixed eventType for an issued origin"]
        ELSE IF /\ publisher # <<>> /\ edition # <<>>
                /\ publisher[1].text # Absent
                /\ IsPrefix(s_Staatsbibliothek_zu_Berlin, publisher[1].text)
                /\ edition[1].text = s_Electronic_ed
        THEN [e |-> SetAttr(e, "eventType", s_digitization),
              warn |-> "Fixed eventType for electronic ed."]
        ELSE IF Find(e, s_dateCreated) # <<>>
        THEN [e |-> SetAttr(e, "eventType", s_production),
              warn |-> "Fixed eventType for a created origin"]
        ELSE [e |-> e, warn |-> ""]

\* lib.py:148-170: one member; the AttributeError of a missing child or
\* text is caught and the next case is tried.
FixEventTypeOf(e) ==
    LET publisher == Find(e, s_publisher)
        edition == Find(e, s_edition)
    IN  IF AttrGet(e, "eventType") # Absent THEN [e |-> e, warn |-> ""]
        ELSE IF /\ publisher # <<>> /\ edition # <<>>
                /\ publisher[1].text # Absent
                /\ IsPrefix(s_Staatsbibliothek_zu_Berlin, publisher[1].text)
                /\ edition[1].text = s_Electronic_ed
        THEN [e |-> SetAttr(e, "eventType", s_digitization),
              warn |-> "Fixed eventType for electronic ed."]
        ELSE IF Find(e, s_dateIssued) # <<>>
        THEN [e |-> SetAttr(e, "eventType", s_publication),
              warn |-> "Fixed eventType for an issued origin"]
        ELSE IF Find(e, s_dateCreated) # <<>>
        THEN [e |-> SetAttr(e, "eventType", s_production),
              warn |-> "Fixed eventType for a created origin"]
        ELSE [e |-> e, warn |-> ""]

\* lib.py:143-171
fix_event_type(self) ==
    IF self.err # "" THEN self
    ELSE LET fixed == [i \in 1..Len(self.group) |-> FixEventTypeOf(self.group[i])]
             warned == SelectSeq(fixed, LAMBDA f : f.warn # "")
         IN  [tag |-> self.tag,
              group |-> [i \in 1..Len(fixed) |-> fixed[i].e],
              err |-> "",
              warns |-> self.warns \o
                        [i \in 1..Len(warned) |->
                            [tag |-> self.tag, message |-> warned[i].warn,
                             detail |-> ""]]]

s_scriptTerm == <<"s","c","r","i","p","t","T","e","r","m">>
s_ISO15924 == <<"I","S","O","1","5","9","2","4">>
s_iso15924 == <<"i","s","o","1","5","9","2","4">>

\* lib.py:173-179; e.attrib['authority'] of a member without the attribute
\* raises KeyError.
fix_script_term(self) ==
    IF self.err # "" THEN self
    ELSE LET n == Len(self.group)
             missing == {i \in 1..n : AttrGet(self.group[i], "authority") = Absent}
             upper == {i \in 1..n : AttrGet(self.group[i], "authority") = s_ISO15924}
             Warns(m) == [i \in 1..Cardinality({j \in upper : j < m}) |->
                            [tag |-> self.tag,
                             message |-> "Changed scriptTerm authority to lower case",
                             detail |-> ""]]
         IN  IF missing # {}
             THEN [self EXCEPT !.err = "KeyError",
                               !.warns = @ \o Warns(SetMin(missing))]
             ELSE [self EXCEPT
                     !.group = [i \in 1..n |->
                                  IF i \in upper
                                  THEN SetAttr(self.group[i], "authority", s_iso15924)
                                  ELSE self.group[i]],
                     !.warns = @ \o Warns(n + 1)]

\* lib.py:63-65 with key=lambda d: d.attrib.get('keyDate') == 'yes' and
\* reverse=True: the members with keyDate="yes" first, each part in the
\* order it had.
sort_keyDate_first(self) ==
    IF self.err # "" THEN self
    ELSE [self EXCEPT !.group =
            SelectSeq(self.group, LAMBDA d : AttrGet(d, "keyDate") = s_yes)
            \o SelectSeq(self.group, LAMBDA d : AttrGet(d, "keyDate") # s_yes)]

\* value[k] = <chain>
SetItem(value, k, r) ==
    Call(LAMBDA x :
           IF x.err # ""
           THEN [value EXCEPT !.err = x.err, !.warns = @ \o x.warns]
           ELSE [value EXCEPT !.v = DPut(@, k, x.v), !.warns = @ \o x.warns],
         r)

\* Mutant of UnknownTag: a tag without a rule is passed over.
UnknownTagIgnored(raise_errors, value) == value

\* mods4pandas.py:211-215, 253-258 and alto4pandas.py:109-114: the last
\* branch of the rule table.
UnknownTag(raise_errors, value) ==
    IF raise_errors THEN [value EXCEPT !.err = "ValueError: Unknown tag"]
    ELSE value

RECURSIVE mods_to_dict(_, _, _)
RECURSIVE mets_to_dict(_, _, _)
RECURSIVE alto_to_dict(_, _, _)

\* lib.py:273-290
to_dict(root, raise_errors, order) ==
    LET namespace == QNameNamespace(root.tag) IN
    IF namespace = ns_mods THEN mods_to_dict(root, raise_errors, order)
    ELSE IF namespace = ns_mets THEN mets_to_dict(root, raise_errors, order)
    ELSE IF namespace \in AltoNamespaces
    THEN alto_to_dict(root, raise_errors, order)
    ELSE [NoValue EXCEPT !.err = "ValueError: Unknown namespace"]

\* lib.py:79-80
descend(self, raise_errors, order) ==
    Call(LAMBDA s :
           IF s.err # "" THEN Failed(s)
           ELSE Call(LAMBDA r : [err |-> r.err, v |-> PyDict(r.v),
                                 warns |-> s.warns \o r.warns],
                     to_dict(s.group[1], raise_errors, order)),
         is_singleton(self))

\* e.iter(): the element itself and then its descendants, in document
\* order.
RECURSIVE Iter(_)
Iter(e) == <<e>> \o Concat([i \in 1..Len(e.children) |-> Iter(e.children[i])])

\* lib.py:218-222: the loop over the nodes, from the i-th on.
RECURSIVE CountLoop(_, _, _)
CountLoop(nodes, i, counts) ==
    IF i > Len(nodes) THEN counts
    ELSE LET key == QNameLocalname(nodes[i].tag) \o s__count
             n == IF DHas(counts, key) THEN DGet(counts, key).v ELSE 0
         IN  CountLoop(nodes, i + 1, DPut(counts, key, PyInt(n + 1)))

\* lib.py:216-223
subelement_counts(self) ==
    IF self.err # "" THEN Failed(self)
    ELSE [err |-> "",
          v |-> PyDict(CountLoop(
                   Concat([i \in 1..Len(self.group) |-> Iter(self.group[i])]),
                   1, <<>>)),
          warns |-> self.warns]

\* Mutant of Contribution: the elements of a set value are left out.
ContributionScalarOnly(v) == IF v.t = "set" THEN {} ELSE {v.v}

\* lib.py:194-197: what a value adds to the set of its subfield.
Contribution(v) == IF v.t = "set" THEN v.v ELSE {v.v}

\* lib.py:181-199; mods_to_dict(e) takes the default raise_errors=True.
merge_sub_tags_to_set(self, order) ==
    IF self.err # "" THEN Failed(self)
    ELSE Call(LAMBDA sub_dicts :
         LET n == Len(sub_dicts)
             bad == {i \in 1..n : sub_dicts[i].err # ""}
         IN
         IF bad # {}
         THEN [err |-> sub_dicts[SetMin(bad)].err, v |-> None,
               warns |-> self.warns
                   \o Concat([i \in 1..SetMin(bad) |-> sub_dicts[i].warns])]
         ELSE LET sub_tags == UNION {Range(DKeys(sub_dicts[i].v)) : i \in 1..n}
                  Has(i, k) == DHas(sub_dicts[i].v, k)
                                 /\ Truthy(DGet(sub_dicts[i].v, k))
                  Part(i, k) ==
                      IF ~Has(i, k) THEN {}
                      ELSE Contribution(DGet(sub_dicts[i].v, k))
                  keys == StrSetOrder(sub_tags, order)
                  warns == self.warns \o Concat([i \in 1..n |-> sub_dicts[i].warns])
              IN
              IF \E i \in 1..n : \E k \in sub_tags :
                     Has(i, k) /\ DGet(sub_dicts[i].v, k).t = "dict"
              THEN [err |-> "TypeError", v |-> None, warns |-> warns]
              ELSE [err |-> "",
                    v |-> PyDict([j \in 1..Len(keys) |->
                            [k |-> keys[j],
                             v |-> PySet(UNION {Part(i, keys[j]) : i \in 1..n})]]),
                    warns |-> warns],
         [i \in 1..Len(self.group) |-> mods_to_dict(self.group[i], TRUE, order)])

\* mods4pandas.py:109-113: the loop over the group, from the i-th member on.
RECURSIVE IdentifierLoop(_, _, _)
IdentifierLoop(group, i, value) ==
    IF i > Len(group) THEN value
    ELSE LET e == group[i] IN
         IF Cardinality(e.attrib) # 1
         THEN [value EXCEPT !.err = "ValueError: Unknown attributes"]
         ELSE IF AttrGet(e, "type") = Absent
         THEN [value EXCEPT !.err = "KeyError"]
         ELSE IdentifierLoop(group, i + 1,
                  [value EXCEPT !.v = DPut(@, s_identifier_ \o AttrGet(e, "type"),
                                           AttrValue(e.text))])

\* mods4pandas.py:185-190
RECURSIVE NamePartLoop(_, _, _)
NamePartLoop(group, i, value) ==
    IF i > Len(group) THEN value
    ELSE LET e == group[i]
             type == AttrGet(e, "type")
             k == IF type = Absent \/ type = <<>> THEN s_namePart
                  ELSE s_namePart_ \o type
         IN  NamePartLoop(group, i + 1,
                 [value EXCEPT !.v = DPut(@, k, AttrValue(e.text))])

\* Mutant of NameLoop: the members are numbered from the last one.
RECURSIVE NameLoopFromLast(_, _, _, _, _)
NameLoopFromLast(group, n, raise_errors, order, value) ==
    IF n >= Len(group) \/ value.err # "" THEN value
    ELSE Call(LAMBDA r :
                Call(LAMBDA value1 :
                       NameLoopFromLast(group, n + 1, raise_errors, order, value1),
                     SetItem(value, s_name \o IntToStr(n),
                             [err |-> r.err, v |-> PyDict(r.v),
                              warns |-> r.warns])),
              mods_to_dict(group[Len(group) - n], raise_errors, order))

\* mods4pandas.py:174-176: the enumerated descent, from the n-th member on
\* (n counts from 0).
RECURSIVE NameLoop(_, _, _, _, _)
NameLoop(group, n, raise_errors, order, value) ==
    IF n >= Len(group) \/ value.err # "" THEN value
    ELSE Call(LAMBDA r :
                Call(LAMBDA value1 :
                       NameLoop(group, n + 1, raise_errors, order, value1),
                     SetItem(value, s_name \o IntToStr(n),
                             [err |-> r.err, v |-> PyDict(r.v),
                              warns |-> r.warns])),
              mods_to_dict(group[n + 1], raise_errors, order))

only_standard_title(title_info) == AttrGet(title_info, "type") = Absent

\* mods4pandas.py:39-40
only_current_location(location) == AttrGet(location, "type") # s_former

\* mods4pandas.py:46-47, 52-53
no_display_label(e) == AttrGet(e, "displayLabel") = Absent

\* mods4pandas.py:60-63
has_event_type(origin_info) == AttrGet(origin_info, "eventType") # Absent

EventType(g) == AttrGet(g, "eventType")

\* mods4pandas.py:66-67: the enumerated descent into one group of equal
\* eventType, from the n-th member on (n counts from 0).
RECURSIVE OriginInfoLoop(_, _, _, _, _, _)
OriginInfoLoop(group, n, event_type, raise_errors, order, value) ==
    IF n >= Len(group) \/ value.err # "" THEN value
    ELSE Call(LAMBDA r :
                Call(LAMBDA value1 :
                       OriginInfoLoop(group, n + 1, event_type, raise_errors,
                                      order, value1),
                     SetItem(value, s_originInfo_ \o event_type \o IntToStr(n),
                             [err |-> r.err, v |-> PyDict(r.v),
                              warns |-> r.warns])),
              mods_to_dict(group[n + 1], raise_errors, order))

\* mods4pandas.py:65-67: the loop over the groups, from the i-th on.
RECURSIVE OriginInfoGroups(_, _, _, _, _)
OriginInfoGroups(groups, i, raise_errors, order, value) ==
    IF i > Len(groups) \/ value.err # "" THEN value
    ELSE Call(LAMBDA value1 :
                OriginInfoGroups(groups, i + 1, raise_errors, order, value1),
              OriginInfoLoop(groups[i].group, 0, groups[i].tag, raise_errors,
                             order, value))

\* mods4pandas.py:59-67
OriginInfo(tag, group, raise_errors, order, value) ==
    Call(LAMBDA tag_group :
           Call(LAMBDA groups :
                  OriginInfoGroups(groups, 1, raise_errors, order,
                      [value EXCEPT !.warns = @ \o tag_group.warns]),
                sorted_groupby(tag_group.group, EventType)),
         filter(fix_event_type(TagGroup(tag, group)), has_event_type,
                "has no eventType"))

\* mods4pandas.py:105-108: the ValueError of the first chain is caught.
RecordIdentifier(tag, group, value) ==
    LET first == text(has_attributes(is_singleton(TagGroup(tag, group)),
                          {{<<"source", s_gbv_ppn>>}}), <<"\n">>)
    IN  IF first.err = "" THEN SetItem(value, s_recordIdentifier, first)
        ELSE SetItem(value, s_recordIdentifier_dnb_ppn,
                 text(has_attributes(is_singleton(TagGroup(tag, group)),
                          {{<<"source", s_dnb_ppn>>}}), <<"\n">>))

\* mods4pandas.py:36-215: the body of the loop, for one group.
ModsGroup(tag, group, raise_errors, order, value) ==
    CASE tag = QTag(ns_mods, s_location) ->
            SetItem(value, s_location,
                descend(is_singleton(has_attributes(
                            filter(TagGroup(tag, group), only_current_location, ""),
                            {{}, {<<"type", s_current>>}})),
                        raise_errors, order))
      [] tag = QTag(ns_mods, s_physicalLocation) ->
            SetItem(value, s_physicalLocation,
                text(filter(TagGroup(tag, group), no_display_label, ""), <<"\n">>))
      [] tag = QTag(ns_mods, s_shelfLocator) ->
            SetItem(value, s_shelfLocator,
                text(has_no_attributes(force_singleton(
                         filter(TagGroup(tag, group), no_display_label, ""),
                         TRUE)),
                     <<"\n">>))
      [] tag = QTag(ns_mods, s_originInfo) ->
            OriginInfo(tag, group, raise_errors, order, value)
      [] tag = QTag(ns_mods, s_dateIssued) ->
            SetItem(value, s_dateIssued,
                text(force_singleton(
                         sort_keyDate_first(fix_date(TagGroup(tag, group))),
                         TRUE),
                     <<"\n">>))
      [] tag = QTag(ns_mods, s_dateCreated) ->
            SetItem(value, s_dateCreated,
                text(force_singleton(
                         sort_keyDate_first(fix_date(TagGroup(tag, group))),
                         TRUE),
                     <<"\n">>))
      [] tag = QTag(ns_mods, s_publisher) ->
            SetItem(value, s_publisher,
                text(has_no_attributes(force_singleton(TagGroup(tag, group),
                                                       FALSE)),
                     <<"\n">>))
      [] tag = QTag(ns_mods, s_edition) ->
            SetItem(value, s_edition,
                text(has_no_attributes(force_singleton(TagGroup(tag, group),
                                                       TRUE)),
                     <<"\n">>))
      [] tag = QTag(ns_mods, s_recordInfo) ->
            SetItem(value, s_recordInfo,
                descend(has_no_attributes(is_singleton(TagGroup(tag, group))),
                        raise_errors, order))
      [] tag = QTag(ns_mods, s_recordIdentifier) ->
            RecordIdentifier(tag, group, value)
      [] tag = QTag(ns_mods, s_identifier) ->
            IdentifierLoop(group, 1, value)
      [] tag = QTag(ns_mods, s_titleInfo) ->
            SetItem(value, s_titleInfo,
                descend(has_no_attributes(is_singleton(
                            filter(TagGroup(tag, group), only_standard_title, ""))),
                        raise_errors, order))
      [] tag = QTag(ns_mods, s_title) ->
            SetItem(value, s_title,
                text(has_no_attributes(is_singleton(TagGroup(tag, group))),
                     <<"\n">>))
      [] tag = QTag(ns_mods, s_note) -> value
      [] tag = QTag(ns_mods, s_language) ->
            SetItem(value, s_language,
                merge_sub_tags_to_set(TagGroup(tag, group), order))
      [] tag = QTag(ns_mods, s_languageTerm) ->
            SetItem(value, s_languageTerm,
                text_set(has_attributes(TagGroup(tag, group),
                    {{<<"authority", s_iso639_2b>>, <<"type", s_code>>}})))
      [] tag = QTag(ns_mods, s_scriptTerm) ->
            SetItem(value, s_scriptTerm,
                text_set(has_attributes(fix_script_term(TagGroup(tag, group)),
                    {{<<"authority", s_iso15924>>, <<"type", s_code>>}})))
      [] tag = QTag(ns_mods, s_name) ->
            NameLoop(group, 0, raise_errors, order, value)
      [] tag = QTag(ns_mods, s_namePart) ->
            NamePartLoop(group, 1, value)
      [] tag = QTag(ns_mods, s_mods) -> value
      [] OTHER -> UnknownTag(raise_errors, value)

RECURSIVE ModsGroups(_, _, _, _, _)
ModsGroups(groups, i, raise_errors, order, value) ==
    IF i > Len(groups) \/ value.err # "" THEN value
    ELSE Call(LAMBDA value1 : ModsGroups(groups, i + 1, raise_errors, order, value1),
              ModsGroup(groups[i].tag, groups[i].group, raise_errors, order, value))

\* mods4pandas.py:27-217
mods_to_dict(mods, raise_errors, order) ==
    Call(LAMBDA groups : ModsGroups(groups, 1, raise_errors, order, NoValue),
         sorted_groupby(mods.children, Tag))

\* mods4pandas.py:247-252
RECURSIVE FileGrpLoop(_, _, _)
FileGrpLoop(group, i, value) ==
    IF i > Len(group) THEN value
    ELSE LET use == AttrGet(group[i], "USE") IN
         IF use = Absent \/ use = <<>>
         THEN [value EXCEPT !.err = "ValueError: No USE attribute"]
         ELSE FileGrpLoop(group, i + 1,
                  [value EXCEPT !.v = DPut(@, s_fileGrp_dash \o use \o s__count,
                                           PyInt(Len(group[i].children)))])

\* mods4pandas.py:229-258: the body of the loop, for one group.
MetsGroup(tag, group, raise_errors, order, value) ==
    CASE tag \in {QTag(ns_mets, s_amdSec), QTag(ns_mets, s_dmdSec),
                  QTag(ns_mets, s_metsHdr), QTag(ns_mets, s_structLink),
                  QTag(ns_mets, s_structMap)} -> value
      [] tag = QTag(ns_mets, s_fileSec) ->
            SetItem(value, s_fileSec,
                descend(is_singleton(TagGroup(tag, group)), raise_errors, order))
      [] tag = QTag(ns_mets, s_fileGrp) -> FileGrpLoop(group, 1, value)
      [] OTHER -> UnknownTag(raise_errors, value)

RECURSIVE MetsGroups(_, _, _, _, _)
MetsGroups(groups, i, raise_errors, order, value) ==
    IF i > Len(groups) \/ value.err # "" THEN value
    ELSE Call(LAMBDA value1 : MetsGroups(groups, i + 1, raise_errors, order, value1),
              MetsGroup(groups[i].tag, groups[i].group, raise_errors, order, value))

\* mods4pandas.py:220-259
mets_to_dict(mets, raise_errors, order) ==
    Call(LAMBDA groups : MetsGroups(groups, 1, raise_errors, order, NoValue),
         sorted_groupby(mets.children, Tag))

\* alto4pandas.py:40-114: the body of the loop, for one group.
AltoGroup(tag, group, raise_errors, order, value) ==
    LET localname == QNameLocalname(tag) IN
    CASE localname \in {s_Description, s_sourceImageInformation} ->
            SetItem(value, localname,
                descend(has_no_attributes(is_singleton(TagGroup(tag, group))),
                        raise_errors, order))
      [] localname \in {s_MeasurementUnit, s_fileName} ->
            SetItem(value, localname,
                text(has_no_attributes(is_singleton(TagGroup(tag, group))),
                     <<"\n">>))
      [] localname = s_Styles -> value
      [] OTHER -> UnknownTag(raise_errors, value)

RECURSIVE AltoGroups(_, _, _, _, _)
AltoGroups(groups, i, raise_errors, order, value) ==
    IF i > Len(groups) \/ value.err # "" THEN value
    ELSE Call(LAMBDA value1 : AltoGroups(groups, i + 1, raise_errors, order, value1),
              AltoGroup(groups[i].tag, groups[i].group, raise_errors, order, value))

\* alto4pandas.py:34-116
alto_to_dict(alto, raise_errors, order) ==
    Call(LAMBDA groups : AltoGroups(groups, 1, raise_errors, order, NoValue),
         sorted_groupby(alto.children, Tag))

\* lib.py:293-312
RECURSIVE flatten(_, _, _)

\* Mutant of FlattenItems: the separator is put before the key also when
\* there is no parent.
RECURSIVE FlattenItemsAlwaysJoined(_, _, _, _)
FlattenItemsAlwaysJoined(d, i, parent, separator) ==
    IF i > Len(d) THEN <<>>
    ELSE LET new_key == parent \o separator \o d[i].k
         IN  (IF d[i].v.t = "dict" THEN flatten(d[i].v.v, new_key, separator)
              ELSE <<[k |-> new_key, v |-> d[i].v]>>)
             \o FlattenItemsAlwaysJoined(d, i + 1, parent, separator)

\* lib.py:299-310: the loop over d.items(), from the i-th item on.
RECURSIVE FlattenItems(_, _, _, _)
FlattenItems(d, i, parent, separator) ==
    IF i > Len(d) THEN <<>>
    ELSE LET new_key == IF parent # <<>> THEN parent \o separator \o d[i].k
                        ELSE d[i].k
         IN  (IF d[i].v.t = "dict" THEN flatten(d[i].v.v, new_key, separator)
              ELSE <<[k |-> new_key, v |-> d[i].v]>>)
             \o FlattenItems(d, i + 1, parent, separator)

\* dict(items), from the i-th item on.
RECURSIVE DictOf(_, _, _)
DictOf(items, i, d) ==
    IF i > Len(items) THEN d
    ELSE Call(LAMBDA d1 : DictOf(items, i + 1, d1),
              DPut(d, items[i].k, items[i].v))

flatten(d, parent, separator) ==
    Call(LAMBDA items : DictOf(items, 1, <<>>),
         FlattenItems(d, 1, parent, separator))

----------------------------------------------------------------------------
(* mods4pandas.py, alto4pandas.py: the batch drivers                       *)
(*                                                                         *)
(* An entry of files is [path, doc].  A METS file's doc is the document of  *)
(* pages_to_dict with, in addition, wellformed (ET.parse returns), mods     *)
(* (the elements that 'mets:dmdSec//mods:mods' matches) and root (the root  *)
(* element as mets_to_dict sees it); an ALTO file's doc is [wellformed,     *)
(* root].  The store refuses no statement in these runs: an insert fails    *)
(* only through the record it is given.                                    *)

s_mets_ == <<"m","e","t","s","_">>
s_mets_file == <<"m","e","t","s","_","f","i","l","e">>
s_alto_file == <<"a","l","t","o","_","f","i","l","e">>
s_alto_xmlns == <<"a","l","t","o","_","x","m","l","n","s">>
s_recordInfo_recordIdentifier == <<"r","e","c","o","r","d","I","n","f","o","_","r","e","c","o","r","d","I","d","e","n","t","i","f","i","e","r">>

\* What the body of the try statement leaves behind: the exception that
\* ends it ("" when it runs to its end) and the call that raised it, the
\* states of the sinks, and the warnings caught.
Outcome(err, at, sinks, warns) ==
    [err |-> err, at |-> at, sinks |-> sinks, warns |-> warns]

\* mods4pandas.py:439-440, from the i-th item of d_mets on.
RECURSIVE MetsItems(_, _, _)
MetsItems(d, d_mets, i) ==
    IF i > Len(d_mets) THEN d
    ELSE Call(LAMBDA d1 : MetsItems(d1, d_mets, i + 1),
              DPut(d, s_mets_ \o d_mets[i].k, d_mets[i].v))

\* mods4pandas.py:427-452
MetsFileBody(mets_file, doc, output_page_info, order) ==
    LET S0 == SinkOf("mods_info")
        P0 == SinkOf("page_info")
        Sinks(S, P) == [mods_info |-> S, page_info |-> P]
    IN
    IF ~doc.wellformed THEN Outcome("XMLSyntaxError", "parse", Sinks(S0, P0), <<>>)
    ELSE IF doc.mods = <<>>
    THEN Outcome("TypeError", "mods_to_dict", Sinks(S0, P0), <<>>)
    ELSE
    Call(LAMBDA r_mods :
    IF r_mods.err # ""
    THEN Outcome(r_mods.err, "mods_to_dict", Sinks(S0, P0), r_mods.warns)
    ELSE
    Call(LAMBDA r_mets :
    LET warns == r_mods.warns \o r_mets.warns IN
    IF r_mets.err # ""
    THEN Outcome(r_mets.err, "mets_to_dict", Sinks(S0, P0), warns)
    ELSE
    Call(LAMBDA d :
    Call(LAMBDA S1 :
    LET S2 == [S1 EXCEPT !.tb = Commit(@)] IN
    IF S1.err # "" THEN Outcome(S1.err, "insert_into_db", Sinks(S1, P0), warns)
    ELSE IF ~output_page_info THEN Outcome("", "", Sinks(S2, P0), warns)
    ELSE
    Call(LAMBDA page_info_doc :
    IF page_info_doc.err # ""
    THEN Outcome(page_info_doc.err, "pages_to_dict", Sinks(S2, P0), warns)
    ELSE
    Call(LAMBDA P1 :
    IF P1.err # ""
    THEN Outcome(P1.err, "insert_into_db_multiple", Sinks(S2, P1), warns)
    ELSE Outcome("", "", Sinks(S2, [P1 EXCEPT !.tb = Commit(@)]), warns),
    insert_into_db_multiple(P0, page_info_doc.pages,
        [i \in 1..Len(page_info_doc.pages) |-> "none"])),
    pages_to_dict(doc, order)),
    insert_into_db(S0, d, "none")),
    DPut(MetsItems(flatten(r_mods.v, <<>>, <<"_">>),
                   flatten(r_mets.v, <<>>, <<"_">>), 1),
         s_mets_file, PyStr(mets_file))),
    mets_to_dict(doc.root, TRUE, order)),
    mods_to_dict(doc.mods[1], TRUE, order))

\* alto4pandas.py:176-190
AltoFileBody(alto_file, doc, order) ==
    LET S0 == SinkOf("alto_info")
        Sinks(S) == [alto_info |-> S]
    IN
    IF ~doc.wellformed THEN Outcome("XMLSyntaxError", "parse", Sinks(S0), <<>>)
    ELSE
    Call(LAMBDA r :
    IF r.err # "" THEN Outcome(r.err, "alto_to_dict", Sinks(S0), r.warns)
    ELSE
    Call(LAMBDA d :
    Call(LAMBDA S1 :
    IF S1.err # "" THEN Outcome(S1.err, "insert_into_db", Sinks(S1), r.warns)
    ELSE Outcome("", "", Sinks([S1 EXCEPT !.tb = Commit(@)]), r.warns),
    insert_into_db(S0, d, "none")),
    DPut(DPut(flatten(r.v, <<>>, <<"_">>), s_alto_file, PyStr(alto_file)),
         s_alto_xmlns, AttrValue(QNameNamespace(doc.root.tag)))),
    alto_to_dict(doc.root, TRUE, order))

\* The rows of the tables, as a loop iteration finds or leaves them.
RowCounts(store) == [t \in Tables |-> Len(store[t].rows)]

\* csvwriter.writerow([file, caught_warning.message]) for the warnings caught
WarningRows(file, warns) ==
    [i \in 1..Len(warns) |-> [file |-> file, message |-> warns[i]]]

\* mods4pandas.py:425-460  one iteration of the loop over mets_files_real:
\* the try statement, and the except clause that logs the exception.
ProcessMetsFile ==
    /\ mode = "mods" /\ pc = "loop" /\ idx < Len(files)
    /\ \E order \in {"asc", "desc"} :
         \E r \in {MetsFileBody(files[idx + 1].path, files[idx + 1].doc,
                                arg.output_page_info, order)} :
         LET mets_file == files[idx + 1].path
             store == [db EXCEPT !["mods_info"] = r.sinks.mods_info.tb,
                                 !["page_info"] = r.sinks.page_info.tb]
         IN
         /\ current_columns' =
                [current_columns EXCEPT !["mods_info"] = r.sinks.mods_info.cols,
                                        !["page_info"] = r.sinks.page_info.cols]
         /\ current_columns_types' =
                [current_columns_types EXCEPT
                    !["mods_info"] = r.sinks.mods_info.types,
                    !["page_info"] = r.sinks.page_info.types]
         /\ db' = store
         /\ csv' = IF r.err = "" THEN csv \o WarningRows(mets_file, r.warns)
                   ELSE csv
         /\ log' = Append(log, [file |-> mets_file, err |-> r.err, at |-> r.at,
                                warns |-> r.warns,
                                before |-> RowCounts(db),
                                after |-> RowCounts(store)])
    /\ idx' = idx + 1
    /\ UNCHANGED <<mode, pc, files, out, arg, ret>>

\* mods4pandas.py:462-475  after the loop: mods_info is read back and
\* written as it is; nothing is written for page_info.
FinalizeMods ==
    /\ mode = "mods" /\ pc = "loop" /\ idx = Len(files)
    /\ \E mods_info_df \in {read_sql_query(db["mods_info"],
                                            s_recordInfo_recordIdentifier)} :
           /\ out' = [out EXCEPT !["mods_info"] = mods_info_df]
           /\ pc' = IF mods_info_df.err = "" THEN "done" ELSE "raised"
    /\ UNCHANGED <<current_columns, current_columns_types, db, mode, files,
                   idx, log, csv, arg, ret>>

\* alto4pandas.py:177-202  one iteration of the loop over alto_files_real.
ProcessAltoFile ==
    /\ mode = "alto" /\ pc = "loop" /\ idx < Len(files)
    /\ \E order \in {"asc", "desc"} :
         \E r \in {AltoFileBody(files[idx + 1].path, files[idx + 1].doc, order)} :
         LET alto_file == files[idx + 1].path
             store == [db EXCEPT !["alto_info"] = r.sinks.alto_info.tb]
         IN
         /\ current_columns' =
                [current_columns EXCEPT !["alto_info"] = r.sinks.alto_info.cols]
         /\ current_columns_types' =
                [current_columns_types EXCEPT
                    !["alto_info"] = r.sinks.alto_info.types]
         /\ db' = store
         /\ csv' = IF r.err = "" THEN csv \o WarningRows(alto_file, r.warns)
                   ELSE csv
         /\ log' = Append(log, [file |-> alto_file, err |-> r.err, at |-> r.at,
                                warns |-> r.warns,
                                before |-> RowCounts(db),
                                after |-> RowCounts(store)])
    /\ idx' = idx + 1
    /\ UNCHANGED <<mode, pc, files, out, arg, ret>>

\* alto4pandas.py:204-206
FinalizeAlto ==
    /\ mode = "alto" /\ pc = "loop" /\ idx = Len(files)
    /\ \E df \in {convert_db_to_parquet(current_columns_types["alto_info"],
                                         db["alto_info"], s_alto_file)} :
           /\ out' = [out EXCEPT !["alto_info"] = df]
           /\ pc' = IF df.err = "" THEN "done" ELSE "raised"
    /\ UNCHANGED <<current_columns, current_columns_types, db, mode, files,
                   idx, log, csv, arg, ret>>

----------------------------------------------------------------------------
(* The documents of the batches                                            *)

MaxDocs == 2

ns_alto_v3 == <<"h","t","t","p",":","/","/","w","w","w",".","l","o","c",".","g","o","v","/","s","t","a","n","d","a","r","d","s","/","a","l","t","o","/","n","s","-","v","3","#">>
s_mets == <<"m","e","t","s">>
s_alto == <<"a","l","t","o">>
s_file == <<"f","i","l","e">>
s_multivolume_work == <<"m","u","l","t","i","v","o","l","u","m","e","_","w","o","r","k">>
s_pixel == <<"p","i","x","e","l">>
s_lat == <<"l","a","t">>

FilePath(i) == <<"f", DigitChars[i + 1]>>

Leaf(tag, attrib, text_) == Element(tag, attrib, text_, <<>>)

\* An element whose tag has no rule in any converter.
UnknownElement(namespace) == Leaf(QTag(namespace, s_x), {}, Absent)

Title1 == Leaf(QTag(ns_mods, s_title), {}, <<"t">>)
TitleInfo1 == Element(QTag(ns_mods, s_titleInfo), {}, Absent, <<Title1>>)
RecordInfo1 ==
    Element(QTag(ns_mods, s_recordInfo), {}, Absent,
            <<Leaf(QTag(ns_mods, s_recordIdentifier),
                   {<<"source", s_gbv_ppn>>}, s_ppn1)>>)
LanguageTerm1 ==
    Leaf(QTag(ns_mods, s_languageTerm),
         {<<"authority", s_iso639_2b>>, <<"type", s_code>>}, s_lat)
NamePart1 == Leaf(QTag(ns_mods, s_namePart), {}, <<"n">>)

Mods(children) == Element(QTag(ns_mods, s_mods), {}, Absent, children)

ModsOk == Mods(<<TitleInfo1, RecordInfo1>>)
ModsNoRecordInfo == Mods(<<TitleInfo1>>)
ModsUnknownTop == Mods(<<TitleInfo1, UnknownElement(ns_mods), RecordInfo1>>)
ModsUnknownInTitleInfo ==
    Mods(<<Element(QTag(ns_mods, s_titleInfo), {}, Absent,
                   <<Title1, UnknownElement(ns_mods)>>),
           RecordInfo1>>)
ModsUnknownInName ==
    Mods(<<Element(QTag(ns_mods, s_name), {}, Absent,
                   <<NamePart1, UnknownElement(ns_mods)>>),
           RecordInfo1>>)
ModsUnknownInLanguage ==
    Mods(<<Element(QTag(ns_mods, s_language), {}, Absent,
                   <<LanguageTerm1, UnknownElement(ns_mods)>>),
           RecordInfo1>>)
\* The unknown element is below an element that the rule table ignores.
ModsUnknownInNote ==
    Mods(<<Element(QTag(ns_mods, s_note), {}, Absent, <<UnknownElement(ns_mods)>>),
           Element(QTag(ns_mods, s_name), {}, Absent, <<NamePart1>>),
           Element(QTag(ns_mods, s_language), {}, Absent, <<LanguageTerm1>>),
           RecordInfo1>>)
\* identifier-a.b is no valid column key.
ModsBadKey ==
    Mods(<<TitleInfo1,
           Leaf(QTag(ns_mods, s_identifier), {<<"type", <<"a", ".", "b">>>>}, s_x),
           RecordInfo1>>)

\* Two logical divs, the title page inside the monograph; two pages.
ViewOk ==
    MetsDocument(<<[ID |-> DivIDs[1], TYPE |-> <<"M">>, parent |-> 0],
                   [ID |-> DivIDs[2], TYPE |-> <<"t">>, parent |-> 1]>>,
                 <<[from |-> DivIDs[2], to |-> id_P1],
                   [from |-> DivIDs[1], to |-> id_P2]>>)
ViewNoPhysical == [ViewOk EXCEPT !.phys = [present |-> FALSE, divs |-> <<>>]]
ViewMultivolume ==
    [ViewNoPhysical EXCEPT
        !.logical.divs = <<[ID |-> DivIDs[1], TYPE |-> s_multivolume_work,
                            parent |-> 0]>>,
        !.smLinks = <<>>]
\* The div linked to the second page has a TYPE that gives no valid column key.
ViewBadType ==
    MetsDocument(<<[ID |-> DivIDs[1], TYPE |-> <<"M">>, parent |-> 0],
                   [ID |-> DivIDs[2], TYPE |-> <<"t", ".">>, parent |-> 0]>>,
                 <<[from |-> DivIDs[1], to |-> id_P1],
                   [from |-> DivIDs[2], to |-> id_P2]>>)

\* What the XPath of get_mets_recordIdentifier matches (mods4pandas.py:267-269).
RecordIdentifiers(mods) ==
    IF mods = <<>> THEN <<>>
    ELSE LET infos == SelectSeq(mods[1].children,
                          LAMBDA e : e.tag = QTag(ns_mods, s_recordInfo))
             Ids(info) == SelectSeq(info.children,
                              LAMBDA e : /\ e.tag = QTag(ns_mods, s_recordIdentifier)
                                         /\ AttrGet(e, "source") = s_gbv_ppn)
         IN  Concat([i \in 1..Len(infos) |->
                       [j \in 1..Len(Ids(infos[i])) |-> Ids(infos[i])[j].text]])

\* The children of the METS root element.
MetsChildren(mods, view, extra) ==
    LET E(name, attrib, children) ==
            Element(QTag(ns_mets, name), attrib, Absent, children)
        FileGrp(g) ==
            E(s_fileGrp, IF g.USE = Absent THEN {} ELSE {<<"USE", g.USE>>},
              [j \in 1..Len(g.files) |-> E(s_file, {<<"ID", g.files[j].ID>>}, <<>>)])
    IN  (IF mods = <<>> THEN <<>> ELSE <<E(s_dmdSec, {}, mods)>>)
        \o (IF view.fileSec.present
            THEN <<E(s_fileSec, {},
                     [g \in 1..Len(view.fileSec.fileGrps) |->
                         FileGrp(view.fileSec.fileGrps[g])])>>
            ELSE <<>>)
        \o (IF view.phys.present THEN <<E(s_structMap, {<<"TYPE", <<"P">>>>}, <<>>)>>
            ELSE <<>>)
        \o (IF view.logical.present
            THEN <<E(s_structMap, {<<"TYPE", <<"L">>>>}, <<>>)>>
            ELSE <<>>)
        \o <<E(s_structLink, {}, <<>>)>>
        \o extra

MetsFile(wellformed, mods, view, extra) ==
    [wellformed |-> wellformed,
     mods |-> mods,
     root |-> Element(QTag(ns_mets, s_mets), {}, Absent,
                      MetsChildren(mods, view, extra)),
     recordIdentifier |-> RecordIdentifiers(mods),
     phys |-> view.phys,
     logical |-> view.logical,
     fileSec |-> view.fileSec,
     smLinks |-> view.smLinks]

MetsFiles ==
    {MetsFile(TRUE, <<m>>, ViewOk, <<>>) :
        m \in {ModsOk, ModsNoRecordInfo, ModsUnknownTop, ModsUnknownInTitleInfo,
               ModsUnknownInName, ModsUnknownInLanguage, ModsUnknownInNote,
               ModsBadKey}}
    \cup {MetsFile(TRUE, <<ModsOk>>, v, <<>>) :
        v \in {ViewNoPhysical, ViewMultivolume, ViewBadType}}
    \cup {MetsFile(TRUE, <<ModsOk>>, ViewOk, <<UnknownElement(ns_mets)>>),
          MetsFile(TRUE, <<>>, ViewOk, <<>>),
          MetsFile(FALSE, <<>>, ViewOk, <<>>)}

Alto(namespace, children) == Element(QTag(namespace, s_alto), {}, Absent, children)
AltoDescription(namespace, children) ==
    Element(QTag(namespace, s_Description), {}, Absent,
            <<Leaf(QTag(namespace, s_MeasurementUnit), {}, s_pixel),
              Element(QTag(namespace, s_sourceImageInformation), {}, Absent,
                      <<Leaf(QTag(namespace, s_fileName), {}, <<"i">>)>> \o children)>>)

AltoFile(wellformed, root) == [wellformed |-> wellformed, root |-> root]

AltoFiles ==
    {AltoFile(TRUE, Alto(ns_alto_v2, <<AltoDescription(ns_alto_v2, <<>>)>>)),
     AltoFile(TRUE, Alto(ns_alto_v2, <<>>)),
     AltoFile(TRUE, Alto(ns_alto_v2, <<AltoDescription(ns_alto_v2, <<>>),
                                       UnknownElement(ns_alto_v2)>>)),
     AltoFile(TRUE, Alto(ns_alto_v2,
         <<AltoDescription(ns_alto_v2, <<UnknownElement(ns_alto_v2)>>)>>)),
     AltoFile(TRUE, Alto(ns_alto_v2,
         <<AltoDescription(ns_alto_v2, <<>>),
           Element(QTag(ns_alto_v2, s_Styles), {}, Absent,
                   <<UnknownElement(ns_alto_v2)>>)>>)),
     AltoFile(TRUE, Alto(ns_alto_v3, <<AltoDescription(ns_alto_v3, <<>>)>>)),
     AltoFile(FALSE, Alto(ns_alto_v2, <<>>))}

Files(docs, n) ==
    {[i \in 1..n |-> [path |-> FilePath(i), doc |-> kinds[i]]] :
        kinds \in [1..n -> docs]}

Init ==
    /\ InitCommon
    /\ pc = "loop"
    /\ ret = <<>>
    /\ \E n \in 0..MaxDocs :
         \/ /\ mode = "mods"
            /\ files \in Files(MetsFiles, n)
            /\ \E output_page_info \in BOOLEAN :
                  arg = [output_page_info |-> output_page_info]
         \/ /\ mode = "alto"
            /\ files \in Files(AltoFiles, n)
            /\ arg = [output_page_info |-> FALSE]

Next == ProcessMetsFile \/ FinalizeMods \/ ProcessAltoFile \/ FinalizeAlto

Spec == Init /\ [][Next]_vars

\* The batches of documents whose conversion warns: two mods:edition
\* elements (the second is dropped with a warning), alone, followed by an
\* element without a rule, or beside a key that is no valid column name.
EditionOf(text_) == Leaf(QTag(ns_mods, s_edition), {}, text_)
ModsWarns == Mods(<<EditionOf(<<"1">>), EditionOf(<<"2">>), RecordInfo1>>)
ModsWarnsThenUnknownTag ==
    Mods(<<EditionOf(<<"1">>), EditionOf(<<"2">>), UnknownElement(ns_mods),
           RecordInfo1>>)
ModsWarnsThenBadKey ==
    Mods(<<EditionOf(<<"1">>), EditionOf(<<"2">>),
           Leaf(QTag(ns_mods, s_identifier), {<<"type", <<"a", ".", "b">>>>}, s_x),
           RecordInfo1>>)

\* A language with a language term and a script term: two subfields.
ScriptTerm1 ==
    Leaf(QTag(ns_mods, s_scriptTerm),
         {<<"authority", s_ISO15924>>, <<"type", s_code>>}, <<"L","a","t","f">>)
ModsLanguageAndScript ==
    Mods(<<Element(QTag(ns_mods, s_language), {}, Absent,
                   <<LanguageTerm1, ScriptTerm1>>),
           RecordInfo1>>)

WarningMetsFiles ==
    {MetsFile(TRUE, <<m>>, ViewOk, <<>>) :
        m \in {ModsOk, ModsWarns, ModsWarnsThenUnknownTag, ModsWarnsThenBadKey,
               ModsLanguageAndScript}}
    \cup {MetsFile(TRUE, <<ModsWarns>>, ViewBadType, <<>>)}

InitWarnings ==
    /\ InitCommon
    /\ pc = "loop"
    /\ ret = <<>>
    /\ \E n \in 0..MaxDocs :
         \/ /\ mode = "mods"
            /\ files \in Files(WarningMetsFiles, n)
            /\ \E output_page_info \in BOOLEAN :
                  arg = [output_page_info |-> output_page_info]
         \/ /\ mode = "alto"
            /\ files \in Files(AltoFiles, n)
            /\ arg = [output_page_info |-> FALSE]

SpecWarnings == InitWarnings /\ [][Next]_vars

\* process called again in the same Python process, up to MaxRuns times
\* in all, on the same list of files.
MaxRuns == 2

RunMetsFiles ==
    {MetsFile(TRUE, <<m>>, ViewOk, <<>>) :
        m \in {ModsOk, ModsNoRecordInfo, ModsLanguageAndScript}}

InitRuns ==
    /\ InitCommon
    /\ pc = "loop"
    /\ ret = <<>>
    /\ \E n \in 0..MaxDocs :
         \/ /\ mode = "mods"
            /\ files \in Files(RunMetsFiles, n)
            /\ \E output_page_info \in BOOLEAN :
                  arg = [output_page_info |-> output_page_info, run |-> 1]
         \/ /\ mode = "alto"
            /\ files \in Files(AltoFiles, n)
            /\ arg = [output_page_info |-> FALSE, run |-> 1]

\* mods4pandas.py:402-422, alto4pandas.py:163-175  the start of another
\* call of process: the output file and the store files of the tables this
\* driver writes are removed, new connections are opened and the warnings
\* file is truncated.  The dicts of lib.py:329-330 belong to the module and
\* are not touched.
NewRun ==
    /\ mode \in {"mods", "alto"} /\ pc \in {"done", "raised"}
    /\ arg.run < MaxRuns
    /\ LET removed == IF mode = "alto" THEN {"alto_info"}
                      ELSE IF arg.output_page_info THEN {"mods_info", "page_info"}
                      ELSE {"mods_info"}
       IN  /\ db' = [t \in Tables |-> IF t \in removed THEN NoTable ELSE db[t]]
           /\ out' = [t \in Tables |-> IF t \in removed THEN NoFrame ELSE out[t]]
    /\ csv' = <<>>
    /\ log' = <<>>
    /\ idx' = 0
    /\ pc' = "loop"
    /\ arg' = [arg EXCEPT !.run = @ + 1]
    /\ UNCHANGED <<current_columns, current_columns_types, mode, files, ret>>

NextRuns == ProcessMetsFile \/ FinalizeMods \/ ProcessAltoFile \/ FinalizeAlto
               \/ NewRun

SpecRuns == InitRuns /\ [][NextRuns]_vars

----------------------------------------------------------------------------
(* Claims about the batch drivers (specification Spec)                     *)

\* C1 (as claimed): in the METS/MODS driver a document whose processing
\* raises, at whatever step, leaves no row behind in mods_info and none in
\* page_info, and a document that succeeds leaves exactly one mods_info row:
\* every iteration that ended with an exception has the row counts of both
\* tables as they were before it.  The code commits the mods_info row before
\* it links the pages, and keeps the page rows inserted before a failing one.
C1_NoRowsOfFailedDocument ==
    mode = "mods" =>
        \A i \in 1..Len(log) :
            IF log[i].err # "" THEN log[i].after = log[i].before
            ELSE log[i].after["mods_info"] = log[i].before["mods_info"] + 1

\* An element whose children no converter reads: the rule of its tag does
\* nothing (mods:note, the ALTO Styles, the METS sections that are counted
\* or left to pages_to_dict).
C2_Passed(e) ==
    QNameLocalname(e.tag) \in
        {s_note, s_Styles, s_amdSec, s_metsHdr, s_structLink, s_structMap}

\* Below e, a converter comes to a child element whose tag has no rule.
RECURSIVE C2_HasUnknownChild(_)
C2_HasUnknownChild(e) ==
    \E i \in 1..Len(e.children) :
        \/ QNameLocalname(e.children[i].tag) = s_x
        \/ /\ ~C2_Passed(e.children[i])
           /\ C2_HasUnknownChild(e.children[i])

\* C2: with raise_errors=True an iteration of either driver over a document
\* in which a converter comes to a child element without a rule, at any
\* depth of the descent, ends with an exception, inserts no row and leaves
\* the sink, the store and the warnings file as they were, and the loop goes
\* on with the next document.
C2_UnknownTagAbortsOnlyThatDocument ==
    [][(/\ pc = "loop" /\ idx < Len(files) /\ idx' = idx + 1
        /\ C2_HasUnknownChild(files[idx + 1].doc.root))
       => /\ log'[Len(log')].err # ""
          /\ log'[Len(log')].after = log'[Len(log')].before
          /\ UNCHANGED <<current_columns, current_columns_types, db, csv>>
          /\ pc' = "loop"]_vars

\* C2, witness: a document was given up for an unknown tag without a row,
\* and a later document of the same batch was converted and inserted.
C2_Witness ==
    \E i, j \in 1..Len(log) :
        /\ i < j
        /\ C2_HasUnknownChild(files[i].doc.root)
        /\ log[i].err = "ValueError: Unknown tag"
        /\ log[i].after = log[i].before
        /\ log[j].err = ""
        /\ \E t \in Tables : log[j].after[t] = log[j].before[t] + 1

\* C3 (as claimed): a driver handles every document once, in the order of
\* the list, and then completes the finalization step without raising, also
\* when every document has failed.  The finalization reads a table that
\* exists only after a first successful insert.
C3_FinalizationCompletes ==
    /\ pc # "raised"
    /\ pc = "done" =>
          /\ Len(log) = Len(files)
          /\ \A i \in 1..Len(log) : log[i].file = files[i].path

\* C7 (as claimed): at the end of the batch every table a driver has
\* written has gone through the coercion pass, so that each column has the
\* dtype of its recorded type; a column recorded as int (every '-count'
\* column) is nullable integer.  The METS/MODS driver writes mods_info as
\* read_sql_query returns it.
C7_EveryWrittenTableCoerced ==
    pc = "done" =>
        \A t \in Tables :
            db[t].exists =>
               /\ out[t].coerced
               /\ \A c \in Range(out[t].columns) :
                     (c \in DOMAIN current_columns_types[t]
                        /\ current_columns_types[t][c] = "int")
                     => out[t].dtype[c] = "Int64"

----------------------------------------------------------------------------
(* Further claims about the tabular sink (specification SpecSink)          *)

\* The identifier grammar: letters, digits, space and _ @ / : [ ] -
InGrammar(k) == Len(k) >= 1 /\ \A i \in 1..Len(k) : k[i] \in KeyChars

\* C24: every column name of every table's column list is in the identifier
\* grammar, in every reachable state, and a call whose record has a key
\* outside the grammar ends with an error.  The pattern's $ lets a key
\* pass that ends with a newline.
C24_ColumnsMatchGrammar ==
    /\ \A t \in Tables : \A i \in 1..Len(current_columns[t]) :
           InGrammar(current_columns[t][i])
    /\ mode = "sink" =>
           \A i \in 1..Len(log) :
               (\E j \in 1..Len(log[i].d) : ~InGrammar(log[i].d[j].k))
                   => log[i].err # ""

\* Every column name has passed valid_column_key, and a call whose record
\* has a key that does not pass it ends with an error.
C24_ColumnsPassValidation ==
    /\ \A t \in Tables : \A i \in 1..Len(current_columns[t]) :
           valid_column_key(current_columns[t][i])
    /\ mode = "sink" =>
           \A i \in 1..Len(log) :
               (\E j \in 1..Len(log[i].d) : ~valid_column_key(log[i].d[j].k))
                   => log[i].err = "AssertionError"

\* C28: after any sequence of calls, aborted ones included, the column
\* lists and the store agree: a table whose column list is not empty exists
\* and has exactly these columns.  A call that aborts part-way leaves the
\* keys it had appended in the list without the table or column for them.
C28_ColumnListAgreesWithStore ==
    \A t \in Tables :
        current_columns[t] # <<>> =>
            /\ db[t].exists
            /\ db[t].cols = current_columns[t]

\* As long as no call has ended with an error, the column list and the
\* store agree.
C28_AgreeWithoutAbortedCall ==
    (mode = "sink" /\ \A i \in 1..Len(log) : log[i].err = "") =>
        C28_ColumnListAgreesWithStore

----------------------------------------------------------------------------
(* Claims about the warnings file (specification SpecWarnings)             *)

\* The rows of the warnings file that name the file.
RowsOf(file) == SelectSeq(csv, LAMBDA row : row.file = file)

\* C21: every warning caught while a document was processed is one row
\* (file, message) of the warnings file, also when the iteration ended with
\* an exception.  The rows are written by the last statement of the try
\* body, which an exception skips.
C21_EveryWarningIsALogRow ==
    \A i \in 1..Len(log) :
        RowsOf(log[i].file) = WarningRows(log[i].file, log[i].warns)

\* The warnings of the documents that were processed without an exception
\* are all there, in the order they were emitted.
C21_WarningsOfPassedDocuments ==
    \A i \in 1..Len(log) :
        log[i].err = "" =>
            RowsOf(log[i].file) = WarningRows(log[i].file, log[i].warns)

\* C27: the same documents in the same order always give the same column
\* order: the columns of mods_info after a document are those that the state
\* before it and the document determine.  The keys below mods:language and
\* mods:role come in the iteration order of a set of str, which differs from
\* one process to the next.
C27_ColumnOrderReproducible ==
    [][(mode = "mods" /\ pc = "loop" /\ idx' = idx + 1) =>
          current_columns'["mods_info"] =
              MetsFileBody(files[idx + 1].path, files[idx + 1].doc,
                           arg.output_page_info, "asc").sinks.mods_info.cols]_vars

\* The columns a document adds come after the columns that were there, in
\* the key order of the document's record.
C27_ColumnsInArrivalOrder ==
    [][(mode = "mods" /\ pc = "loop" /\ idx' = idx + 1) =>
          LET old == current_columns["mods_info"]
              new == current_columns'["mods_info"]
          IN  /\ Len(old) <= Len(new)
              /\ SubSeq(new, 1, Len(old)) = old
              /\ \A i, j \in 1..Len(new) : new[i] = new[j] => i = j]_vars

----------------------------------------------------------------------------
(* Claims about repeated runs (specification SpecRuns)                     *)

\* C29: a run starts with an empty column list and no recorded types for
\* its tables, also when process has run before in the same Python process.
\* The dicts are created when lib.py is imported and never emptied.
C29_RunStartsWithEmptySchema ==
    (mode \in {"mods", "alto"} /\ pc = "loop" /\ idx = 0) =>
        \A t \in Tables :
            /\ current_columns[t] = <<>>
            /\ current_columns_types[t] = NoTypes

\* The first run of a Python process starts with an empty column list.
C29_FirstRunStartsEmpty ==
    (mode \in {"mods", "alto"} /\ pc = "loop" /\ idx = 0 /\ arg.run = 1) =>
        \A t \in Tables :
            /\ current_columns[t] = <<>>
            /\ current_columns_types[t] = NoTypes

----------------------------------------------------------------------------
(* The functions of lib.py on their own: one call on a bounded input       *)

MaxKeys == 2

k_a_b == <<"a", "_", "b">>

\* The dicts with up to n items, keys from K (each at most once, in every
\* order of insertion) and values from V.
RECURSIVE DictsOf(_, _, _)
DictsOf(K, V, n) ==
    IF n = 0 THEN {<<>>}
    ELSE LET shorter == DictsOf(K, V, n - 1) IN
         shorter \cup {Append(d, [k |-> k, v |-> v]) :
                          d \in {x \in shorter : Len(x) = n - 1}, k \in K, v \in V}

DistinctKeys(d) == \A i, j \in 1..Len(d) : d[i].k = d[j].k => i = j

\* The nested records given to flatten: leaves, dicts of leaves and one
\* dict of a dict of a leaf as values.
LeafValues == {PyInt(1), None}
InnerRecords == {d \in DictsOf({k_a, k_b}, LeafValues, MaxKeys) : DistinctKeys(d)}
DeepRecord == <<[k |-> k_b, v |-> PyDict(<<[k |-> k_a, v |-> PyStr(s_x)]>>)]>>
NestedRecords ==
    {d \in DictsOf({k_a, k_b, k_a_b},
                   LeafValues \cup {PyDict(r) : r \in InnerRecords \cup {DeepRecord}},
                   MaxKeys) : DistinctKeys(d)}

\* The date groups given to fix_date: up to MaxDates members, each with
\* no attribute, an encoding, or an encoding and keyDate="yes".
MaxDates == 2

DateTexts ==
    {Absent,
     <<"1","8","2","0">>,
     <<"1","8","X","X">>,
     <<"1","8","2","0","-","0","8","-","0","6">>,
     <<"0","6",".","0","8",".","1","8","2","0">>,
     <<"1","7","8","5","-","1","8","0","0">>}
DateAttribs ==
    {{}, {<<"encoding", s_encoding_iso8601>>}, {<<"encoding", s_encoding_w3cdtf>>},
     {<<"encoding", s_encoding_iso8601>>, <<"keyDate", s_yes>>}}
DateElements ==
    {Element(QTag(ns_mods, s_dateIssued), a, txt, <<>>) :
        a \in DateAttribs, txt \in DateTexts}
DateGroups == UNION {[1..n -> DateElements] : n \in 0..MaxDates}

\* The groups given to force_singleton: up to MaxMembers mods:edition
\* elements, with or without text, one kind with an attribute.
MaxMembers == 3

EditionElements ==
    {Element(QTag(ns_mods, s_edition), a, txt, <<>>) :
        a \in {{}, {<<"lang", <<"d","e">>>>}},
        txt \in {Absent, <<"1">>, <<"2">>}}
EditionGroups == UNION {[1..n -> EditionElements] : n \in 0..MaxMembers}

\* The siblings given to merge_sub_tags_to_set: mods:language elements
\* with language terms (a set each) and a title (a scalar).
s_ger == <<"g","e","r">>
LanguageTermOf(code) ==
    Leaf(QTag(ns_mods, s_languageTerm),
         {<<"authority", s_iso639_2b>>, <<"type", s_code>>}, code)
TitleOf(text_) == Leaf(QTag(ns_mods, s_title), {}, text_)
LanguageElements ==
    {Element(QTag(ns_mods, s_language), {}, Absent, children) :
        children \in {<<>>,
                      <<LanguageTermOf(s_lat)>>,
                      <<LanguageTermOf(s_ger)>>,
                      <<LanguageTermOf(s_lat), LanguageTermOf(s_ger)>>,
                      <<TitleOf(<<"t">>)>>,
                      <<LanguageTermOf(s_lat), TitleOf(<<"u">>)>>,
                      <<TitleOf(Absent)>>}}
LanguageGroups == UNION {[1..n -> LanguageElements] : n \in 0..MaxMembers}

\* The roots given to to_dict: mods elements with up to MaxChildren
\* children that the rules with a filter handle, some of which the filter
\* removes, or that have no rule; and the roots of the batch documents.
MaxChildren == 2

TitleInfoAlternative ==
    Element(QTag(ns_mods, s_titleInfo), {<<"type", <<"a","l","t">>>>}, Absent,
            <<Title1>>)
PhysicalLocationOf(attrib) == Leaf(QTag(ns_mods, s_physicalLocation), attrib, <<"p">>)
ShelfLocatorOf(attrib) == Leaf(QTag(ns_mods, s_shelfLocator), attrib, <<"s">>)
DisplayLabel == {<<"displayLabel", <<"l">>>>}
LocationFormer ==
    Element(QTag(ns_mods, s_location), {<<"type", s_former>>}, Absent, <<>>)
LocationCurrent ==
    Element(QTag(ns_mods, s_location), {}, Absent, <<PhysicalLocationOf({})>>)
OriginInfoOf(attrib, children) ==
    Element(QTag(ns_mods, s_originInfo), attrib, Absent, children)
Edition1 == Leaf(QTag(ns_mods, s_edition), {}, <<"1">>)
DateIssued1 == Leaf(QTag(ns_mods, s_dateIssued), {}, <<"1","8","2","0">>)
LanguageUnknown ==
    Element(QTag(ns_mods, s_language), {}, Absent,
            <<LanguageTerm1, UnknownElement(ns_mods)>>)

ModsChildren ==
    {TitleInfo1, TitleInfoAlternative,
     PhysicalLocationOf({}), PhysicalLocationOf(DisplayLabel),
     ShelfLocatorOf({}), ShelfLocatorOf(DisplayLabel),
     LocationFormer, LocationCurrent,
     OriginInfoOf({<<"eventType", s_publication>>}, <<Edition1>>),
     OriginInfoOf({}, <<Edition1>>),
     OriginInfoOf({}, <<DateIssued1>>),
     UnknownElement(ns_mods), LanguageUnknown}

Roots ==
    {Mods(children) : children \in UNION {[1..n -> ModsChildren] : n \in 0..MaxChildren}}
    \cup {ModsUnknownInTitleInfo, ModsUnknownInName, ModsUnknownInNote}
    \cup {f.root : f \in {g \in MetsFiles : g.wellformed}}
    \cup {f.root : f \in {g \in AltoFiles : g.wellformed}}

\* The children given to sorted_groupby: up to MaxSiblings elements, among
\* them mods:name elements that differ in their name part, in every order.
MaxSiblings == 3

NameOf(text_) ==
    Element(QTag(ns_mods, s_name), {}, Absent,
            <<Leaf(QTag(ns_mods, s_namePart), {}, text_)>>)
Siblings ==
    {NameOf(<<"a">>), NameOf(<<"b">>), PhysicalLocationOf({}), Edition1}
SiblingSequences == UNION {[1..n -> Siblings] : n \in 0..MaxSiblings}

\* The groups given to subelement_counts: up to MaxMembers ALTO elements,
\* without children or with children down to the third level.
s_Tags == <<"T","a","g","s">>
s_NamedEntityTag == <<"N","a","m","e","d","E","n","t","i","t","y","T","a","g">>
s_Page == <<"P","a","g","e">>
s_TextBlock == <<"T","e","x","t","B","l","o","c","k">>
s_TextLine == <<"T","e","x","t","L","i","n","e">>
s_String == <<"S","t","r","i","n","g">>
AltoElement(name, children) ==
    Element(QTag(ns_alto_v2, name), {}, Absent, children)
NamedEntityTag1 == AltoElement(s_NamedEntityTag, <<>>)
String1 == AltoElement(s_String, <<>>)
CountedElements ==
    {AltoElement(s_Tags, <<>>),
     AltoElement(s_Tags, <<NamedEntityTag1>>),
     AltoElement(s_Tags, <<NamedEntityTag1, NamedEntityTag1>>),
     AltoElement(s_Page, <<>>),
     AltoElement(s_Page,
         <<AltoElement(s_TextBlock,
               <<AltoElement(s_TextLine, <<String1>>),
                 AltoElement(s_TextLine, <<String1, String1>>)>>)>>)}
CountedGroups == UNION {[1..n -> CountedElements] : n \in 0..MaxMembers}

\* The groups given to fix_event_type: up to MaxOrigins mods:originInfo
\* elements, with or without an eventType, with the children that the three
\* cases look for, alone and together.
MaxOrigins == 2

PublisherOf(text_) == Leaf(QTag(ns_mods, s_publisher), {}, text_)
PublisherSBB == PublisherOf(s_Staatsbibliothek_zu_Berlin \o <<" ", "P", "K">>)
EditionElectronic == EditionOf(s_Electronic_ed)
DateCreated1 == Leaf(QTag(ns_mods, s_dateCreated), {}, <<"1","8","2","1">>)
OriginChildren ==
    {<<>>,
     <<PublisherSBB, EditionElectronic>>,
     <<PublisherSBB, Edition1>>,
     <<PublisherOf(<<"p">>), EditionElectronic>>,
     <<PublisherSBB>>,
     <<PublisherOf(Absent), EditionElectronic>>,
     <<DateIssued1>>,
     <<DateCreated1>>,
     <<DateCreated1, DateIssued1>>,
     <<PublisherSBB, EditionElectronic, DateIssued1>>,
     <<PublisherSBB, Edition1, DateCreated1>>}
s_distribution == <<"d","i","s","t","r","i","b","u","t","i","o","n">>
OriginElements ==
    {OriginInfoOf(a, children) :
        a \in {{}, {<<"eventType", s_distribution>>}},
        children \in OriginChildren}
OriginGroups == UNION {[1..n -> OriginElements] : n \in 0..MaxOrigins}

InitLib ==
    /\ InitCommon
    /\ mode = "lib"
    /\ pc = "call"
    /\ files = <<>>
    /\ ret = <<>>
    /\ \/ \E d \in NestedRecords : arg = [op |-> "flatten", d |-> d]
       \/ \E group \in DateGroups : arg = [op |-> "fix_date", group |-> group]
       \/ \E group \in EditionGroups : \E warn \in BOOLEAN :
             arg = [op |-> "force_singleton", group |-> group, warn |-> warn]
       \/ \E root \in Roots : \E raise_errors \in BOOLEAN :
          \E order \in {"asc", "desc"} :
             arg = [op |-> "to_dict", root |-> root,
                    raise_errors |-> raise_errors, order |-> order]
       \/ \E group \in LanguageGroups : \E order \in {"asc", "desc"} :
             arg = [op |-> "merge_sub_tags_to_set", group |-> group,
                    order |-> order]
       \/ \E children \in SiblingSequences : \E order \in {"asc", "desc"} :
             arg = [op |-> "sorted_groupby", children |-> children,
                    order |-> order]
       \/ \E group \in CountedGroups :
             arg = [op |-> "subelement_counts", group |-> group]
       \/ \E group \in EditionGroups : \E separator \in {<<"\n">>, <<",">>} :
             arg = [op |-> "text", group |-> group, separator |-> separator]
       \/ \E group \in OriginGroups :
             arg = [op |-> "fix_event_type", group |-> group]

\* flatten(d) and flatten(flatten(d))
FlattenCall ==
    /\ mode = "lib" /\ pc = "call" /\ arg.op = "flatten"
    /\ \E once \in {flatten(arg.d, <<>>, <<"_">>)} :
          ret' = [once |-> once, twice |-> flatten(once, <<>>, <<"_">>)]
    /\ pc' = "done"
    /\ UNCHANGED <<current_columns, current_columns_types, db, mode, files,
                   idx, log, csv, out, arg>>

\* TagGroup(tag, group).fix_date(), and fix_date() on its result
FixDateCall ==
    /\ mode = "lib" /\ pc = "call" /\ arg.op = "fix_date"
    /\ \E first \in {fix_date(TagGroup(QTag(ns_mods, s_dateIssued), arg.group))} :
          ret' = [first |-> first,
                  second |-> fix_date(TagGroup(first.tag, first.group))]
    /\ pc' = "done"
    /\ UNCHANGED <<current_columns, current_columns_types, db, mode, files,
                   idx, log, csv, out, arg>>

\* TagGroup(tag, group).force_singleton(warn), and the value that the
\* rule of mods:edition takes from it (mods4pandas.py:93).
ForceSingletonCall ==
    /\ mode = "lib" /\ pc = "call" /\ arg.op = "force_singleton"
    /\ \E tg \in {force_singleton(TagGroup(QTag(ns_mods, s_edition), arg.group),
                                    arg.warn)} :
          ret' = [tg |-> tg, value |-> text(has_no_attributes(tg), <<"\n">>)]
    /\ pc' = "done"
    /\ UNCHANGED <<current_columns, current_columns_types, db, mode, files,
                   idx, log, csv, out, arg>>

\* TagGroup(tag, group).merge_sub_tags_to_set(), as in the rule of
\* mods:language (mods4pandas.py:152-154)
MergeCall ==
    /\ mode = "lib" /\ pc = "call" /\ arg.op = "merge_sub_tags_to_set"
    /\ ret' = merge_sub_tags_to_set(
                  TagGroup(QTag(ns_mods, s_language), arg.group), arg.order)
    /\ pc' = "done"
    /\ UNCHANGED <<current_columns, current_columns_types, db, mode, files,
                   idx, log, csv, out, arg>>

\* _to_dict(root, raise_errors): the converter of the root's namespace
ToDictCall ==
    /\ mode = "lib" /\ pc = "call" /\ arg.op = "to_dict"
    /\ ret' = to_dict(arg.root, arg.raise_errors, arg.order)
    /\ pc' = "done"
    /\ UNCHANGED <<current_columns, current_columns_types, db, mode, files,
                   idx, log, csv, out, arg>>

\* sorted_groupby(mods, key=attrgetter('tag')) on the children of a
\* mods element, and the conversion of that element (mods4pandas.py:36-37)
GroupCall ==
    /\ mode = "lib" /\ pc = "call" /\ arg.op = "sorted_groupby"
    /\ ret' = [groups |-> sorted_groupby(arg.children, Tag),
               value |-> mods_to_dict(Mods(arg.children), TRUE, arg.order)]
    /\ pc' = "done"
    /\ UNCHANGED <<current_columns, current_columns_types, db, mode, files,
                   idx, log, csv, out, arg>>

\* TagGroup(tag, group).subelement_counts(), as in the rules of Page and
\* Tags (alto4pandas.py:98, 108)
CountsCall ==
    /\ mode = "lib" /\ pc = "call" /\ arg.op = "subelement_counts"
    /\ ret' = subelement_counts(TagGroup(QTag(ns_alto_v2, s_Page), arg.group))
    /\ pc' = "done"
    /\ UNCHANGED <<current_columns, current_columns_types, db, mode, files,
                   idx, log, csv, out, arg>>

\* TagGroup(tag, group).text(separator)
TextCall ==
    /\ mode = "lib" /\ pc = "call" /\ arg.op = "text"
    /\ ret' = text(TagGroup(QTag(ns_mods, s_edition), arg.group), arg.separator)
    /\ pc' = "done"
    /\ UNCHANGED <<current_columns, current_columns_types, db, mode, files,
                   idx, log, csv, out, arg>>

\* TagGroup(tag, group).fix_event_type(), and the conversion of a mods
\* element with these mods:originInfo children (mods4pandas.py:59-67)
FixEventTypeCall ==
    /\ mode = "lib" /\ pc = "call" /\ arg.op = "fix_event_type"
    /\ ret' = [fixed |-> fix_event_type(
                             TagGroup(QTag(ns_mods, s_originInfo), arg.group)),
               value |-> mods_to_dict(Mods(arg.group), TRUE, "asc")]
    /\ pc' = "done"
    /\ UNCHANGED <<current_columns, current_columns_types, db, mode, files,
                   idx, log, csv, out, arg>>

NextLib ==
    \/ ToDictCall
    \/ FlattenCall
    \/ FixDateCall
    \/ ForceSingletonCall
    \/ MergeCall
    \/ GroupCall
    \/ CountsCall
    \/ TextCall
    \/ FixEventTypeCall

SpecLib == InitLib /\ [][NextLib]_vars

----------------------------------------------------------------------------
(* Claims on the functions of lib.py, checked under SpecLib *)

\* The leaves of a nested record, each with the path of keys that leads to
\* it, in the order of a depth-first traversal.
RECURSIVE LeavesOf(_, _)
LeavesOf(d, path) ==
    IF Len(d) = 0 THEN <<>>
    ELSE (IF d[1].v.t = "dict" THEN LeavesOf(d[1].v.v, Append(path, d[1].k))
          ELSE <<[path |-> Append(path, d[1].k), v |-> d[1].v]>>)
         \o LeavesOf(Tail(d), path)

\* C13: flatten is idempotent: flatten(flatten(d)) is flatten(d), the same
\* keys in the same order with the same values.
C13_FlattenIdempotent ==
    (pc = "done" /\ arg.op = "flatten") => ret.twice = ret.once

\* C13, witness: a record with a dict in a dict was flattened to two keys.
C13_Witness ==
    /\ pc = "done" /\ arg.op = "flatten"
    /\ \E i \in 1..Len(arg.d) :
          arg.d[i].v.t = "dict" /\ arg.d[i].v.v = DeepRecord
    /\ Len(ret.once) = 2 /\ ret.twice = ret.once

\* C14 (as claimed): flatten(d) maps the joined key path of every leaf of d
\* to that leaf and has no other key; it has as many keys as d has leaves.
\* Two paths that join to the same key (a_b and a, b) leave one item.
C14_OneKeyPerLeaf ==
    (pc = "done" /\ arg.op = "flatten") =>
        LET leaves == LeavesOf(arg.d, <<>>) IN
        /\ Len(ret.once) = Len(leaves)
        /\ \A n \in 1..Len(leaves) :
              /\ DHas(ret.once, JoinSeq(leaves[n].path, <<"_">>))
              /\ DGet(ret.once, JoinSeq(leaves[n].path, <<"_">>)) = leaves[n].v

\* A text in one of the canonical forms YYYY, YYXX and YYYY-MM-DD, and a
\* text of the form DD.MM.YYYY.
CanonicalDateText(s) ==
    \/ /\ Len(s) = 4
       /\ s[1] \in Digits /\ s[2] \in Digits
       /\ \/ s[3] \in Digits /\ s[4] \in Digits
          \/ s[3] = "X" /\ s[4] = "X"
    \/ /\ Len(s) = 10
       /\ \A i \in {1, 2, 3, 4, 6, 7, 9, 10} : s[i] \in Digits
       /\ s[5] = "-" /\ s[8] = "-"
GermanDateText(s) ==
    /\ Len(s) = 10
    /\ \A i \in {1, 2, 4, 5, 7, 8, 9, 10} : s[i] \in Digits
    /\ s[3] = "." /\ s[6] = "."
CanonicalDate(e) ==
    /\ AttrGet(e, "encoding") = s_encoding_iso8601
    /\ e.text # Absent /\ CanonicalDateText(e.text)

\* C15: fix_date on a group whose members all have the encoding iso8601
\* and a text in canonical form changes no text and no attribute, drops no
\* member and gives no warning, the first time and when it is applied again.
C15_FixDateConvergent ==
    (pc = "done" /\ arg.op = "fix_date"
        /\ \A i \in 1..Len(arg.group) : CanonicalDate(arg.group[i])) =>
        /\ ret.first.err = "" /\ ret.first.group = arg.group
        /\ ret.first.warns = <<>>
        /\ ret.second.err = "" /\ ret.second.group = arg.group
        /\ ret.second.warns = <<>>

\* C15, witness: a group of a century date and a full date, both canonical.
C15_Witness ==
    /\ pc = "done" /\ arg.op = "fix_date" /\ Len(arg.group) = 2
    /\ arg.group[1].text = <<"1","8","X","X">>
    /\ arg.group[2].text = <<"1","8","2","0","-","0","8","-","0","6">>
    /\ \A i \in 1..2 : CanonicalDate(arg.group[i])
    /\ ret.first.group = arg.group /\ ret.second.warns = <<>>

\* C16: fix_date keeps every member whose text has the form DD.MM.YYYY,
\* with the text rewritten to YYYY-MM-DD and the encoding iso8601, and
\* gives exactly one 'Converted date' warning for each such member; the
\* rewritten member is canonical, and a second fix_date leaves it as it is
\* and converts nothing.
C16_GermanDateConverted ==
    (pc = "done" /\ arg.op = "fix_date") =>
        LET present == SelectSeq(arg.group, LAMBDA e : e.text # Absent)
            german == {j \in 1..Len(present) : GermanDateText(present[j].text)}
            Converted(warns) ==
                {n \in 1..Len(warns) :
                    warns[n].message = "Converted date to iso8601 encoding"}
        IN  /\ Len(ret.first.group) = Len(present)
            /\ \A j \in german :
                  LET s == present[j].text
                      e == ret.first.group[j]
                  IN  /\ e.text = <<s[7], s[8], s[9], s[10], "-", s[4], s[5],
                                    "-", s[1], s[2]>>
                      /\ CanonicalDate(e)
                      /\ {p \in e.attrib : p[1] # "encoding"}
                            = {p \in present[j].attrib : p[1] # "encoding"}
                      /\ ret.second.group[j] = e
            /\ Cardinality(Converted(ret.first.warns)) = Cardinality(german)
            /\ \A n \in Converted(ret.first.warns) :
                  GermanDateText(ret.first.warns[n].detail)
            /\ Converted(ret.second.warns) = {}

\* C16, witness: 06.08.1820 with keyDate and the encoding w3cdtf, after a
\* member without text, became 1820-08-06 with one conversion warning.
C16_Witness ==
    /\ pc = "done" /\ arg.op = "fix_date" /\ Len(arg.group) = 2
    /\ arg.group[1].text = Absent
    /\ arg.group[2].text = <<"0","6",".","0","8",".","1","8","2","0">>
    /\ Len(ret.first.group) = 1
    /\ ret.first.group[1].text = <<"1","8","2","0","-","0","8","-","0","6">>
    /\ AttrGet(ret.first.group[1], "encoding") = s_encoding_iso8601
    /\ Cardinality({n \in 1..Len(ret.first.warns) :
          ret.first.warns[n].message = "Converted date to iso8601 encoding"}) = 1

SubElements(group) == UNION {Range(e.children) : e \in Range(group)}

\* The texts of the children with the given local name, over all members;
\* a title without text is the empty str, which adds nothing.
SubfieldTexts(group, localname) ==
    {c.text : c \in {c \in SubElements(group) :
                        /\ c.tag = QTag(ns_mods, localname)
                        /\ c.text # Absent}}

SubfieldsOf(group) ==
    {QNameLocalname(c.tag) : c \in SubElements(group)}

C19_LenientNeverRaisesUnknownTag ==
    (pc = "done" /\ arg.op = "to_dict" /\ ~arg.raise_errors) =>
        ret.err # "ValueError: Unknown tag"

\* The lenient conversions whose unknown tag is not below an element that
\* merge_sub_tags_to_set handles do ignore it.
C19_LenientOutsideMerge ==
    (pc = "done" /\ arg.op = "to_dict" /\ ~arg.raise_errors
        /\ \A i \in 1..Len(arg.root.children) :
              arg.root.children[i] # LanguageUnknown) =>
        ret.err # "ValueError: Unknown tag"

\* The members of the groups of a mods element that a filter removes.
FilteredOut(root) ==
    SelectSeq(root.children,
        LAMBDA c :
            \/ c.tag = QTag(ns_mods, s_titleInfo) /\ ~only_standard_title(c)
            \/ c.tag = QTag(ns_mods, s_location) /\ ~only_current_location(c)
            \/ c.tag \in {QTag(ns_mods, s_physicalLocation),
                          QTag(ns_mods, s_shelfLocator)}
                 /\ ~no_display_label(c)
            \/ c.tag = QTag(ns_mods, s_originInfo)
                 /\ ~has_event_type(FixEventTypeOf(c).e))

FilterWarnings(warns) == SelectSeq(warns, LAMBDA w : w.message = "Filtered element")

\* C20: the number of filter warnings of a converted document is the number
\* of elements that the filters removed.
C20_OneWarningPerFilteredElement ==
    (pc = "done" /\ arg.op = "to_dict" /\ ret.err = "") =>
        Len(FilterWarnings(ret.warns)) = Len(FilteredOut(arg.root))

\* The filter of mods:originInfo, which is given a reason, warns once for
\* every member it removes.
C20_OriginInfoFilterWarns ==
    (pc = "done" /\ arg.op = "to_dict" /\ ret.err = "") =>
        Len(FilterWarnings(ret.warns)) =
            Len(SelectSeq(FilteredOut(arg.root),
                          LAMBDA c : c.tag = QTag(ns_mods, s_originInfo)))

\* The children with the given tag, in document order.
ChildrenWithTag(children, tag) == SelectSeq(children, LAMBDA c : c.tag = tag)

\* C22: whatever the order of the children, every tag among them is the tag
\* of exactly one group, which holds all the children of that tag in document
\* order; the i-th mods:name element (counted from 0) is converted under the
\* key name<i>.
C22_OneGroupPerTagInDocumentOrder ==
    (pc = "done" /\ arg.op = "sorted_groupby") =>
        LET groups == ret.groups
            names == ChildrenWithTag(arg.children, QTag(ns_mods, s_name))
        IN  /\ {groups[g].tag : g \in 1..Len(groups)}
                   = {arg.children[i].tag : i \in 1..Len(arg.children)}
            /\ \A g, h \in 1..Len(groups) :
                   groups[g].tag = groups[h].tag => g = h
            /\ \A g \in 1..Len(groups) :
                   groups[g].group = ChildrenWithTag(arg.children, groups[g].tag)
            /\ ret.value.err = ""
            /\ \A i \in 1..Len(names) :
                   /\ DHas(ret.value.v, s_name \o IntToStr(i - 1))
                   /\ DGet(ret.value.v, s_name \o IntToStr(i - 1)) =
                        PyDict(<<[k |-> s_namePart,
                                  v |-> PyStr(names[i].children[1].text)]>>)
            /\ ~DHas(ret.value.v, s_name \o IntToStr(Len(names)))

\* C22, witness: name b, another element, name a: name0 is b and name1 is a.
C22_Witness ==
    /\ pc = "done" /\ arg.op = "sorted_groupby"
    /\ arg.children = <<NameOf(<<"b">>), Edition1, NameOf(<<"a">>)>>
    /\ DGet(ret.value.v, s_name \o <<"0">>)
          = PyDict(<<[k |-> s_namePart, v |-> PyStr(<<"b">>)]>>)
    /\ DGet(ret.value.v, s_name \o <<"1">>)
          = PyDict(<<[k |-> s_namePart, v |-> PyStr(<<"a">>)]>>)

\* The nodes below an element, the element itself not among them.
RECURSIVE Descendants(_)
Descendants(e) ==
    Concat([i \in 1..Len(e.children) |->
               <<e.children[i]>> \o Descendants(e.children[i])])

LocalNames == {s_Tags, s_NamedEntityTag, s_Page, s_TextBlock, s_TextLine, s_String}

\* The number of nodes of the local name t among the descendants of the
\* members of the group.
DescendantCount(group, t) ==
    Len(SelectSeq(Concat([i \in 1..Len(group) |-> Descendants(group[i])]),
                  LAMBDA x : QNameLocalname(x.tag) = t))

\* C23: for every local name t, the key '<t>-count' has the number of
\* descendants of the members with that name, and there is no key for a
\* name that no descendant has.  The code counts the members themselves too.
C23_CountsOfDescendants ==
    (pc = "done" /\ arg.op = "subelement_counts") =>
        \A t \in LocalNames :
            IF DescendantCount(arg.group, t) = 0
            THEN ~DHas(ret.v.v, t \o s__count)
            ELSE /\ DHas(ret.v.v, t \o s__count)
                 /\ DGet(ret.v.v, t \o s__count)
                       = PyInt(DescendantCount(arg.group, t))

\* What the code counts: the nodes of the subtrees of the members, the
\* members included.
C23_CountsOfSubtreeNodes ==
    (pc = "done" /\ arg.op = "subelement_counts") =>
        \A t \in LocalNames :
            LET n == DescendantCount(arg.group, t)
                       + Len(SelectSeq(arg.group,
                                       LAMBDA e : QNameLocalname(e.tag) = t))
            IN  IF n = 0 THEN ~DHas(ret.v.v, t \o s__count)
                ELSE /\ DHas(ret.v.v, t \o s__count)
                     /\ DGet(ret.v.v, t \o s__count) = PyInt(n)

\* The texts of the members that have text, in input order.
PresentTexts(group) ==
    LET present == SelectSeq(group, LAMBDA e : e.text # Absent /\ e.text # <<>>)
    IN  [i \in 1..Len(present) |-> present[i].text]

\* C25: text(separator) is the texts of the members that have text, joined by
\* the separator; a member without text adds neither text nor a separator,
\* wherever it stands.  The code adds the separator before it looks at the
\* member's text.
C25_TextIsJoinOfPresentTexts ==
    (pc = "done" /\ arg.op = "text") =>
        ret.v = PyStr(JoinSeq(PresentTexts(arg.group), arg.separator))

\* When no member without text comes after a member with text, the result
\* is the join of the present texts.
C25_TextWithoutGaps ==
    (pc = "done" /\ arg.op = "text"
        /\ \A i, j \in 1..Len(arg.group) :
              (i < j /\ arg.group[i].text # Absent) => arg.group[j].text # Absent) =>
        ret.v = PyStr(JoinSeq(PresentTexts(arg.group), arg.separator))

HasChild(e, name) ==
    \E i \in 1..Len(e.children) : e.children[i].tag = QTag(ns_mods, name)

\* The event type an element without eventType is to get, by the priority
\* digitization, publication, production; Absent when no case matches.
InferredEventType(e) ==
    IF \E i, j \in 1..Len(e.children) :
          /\ e.children[i].tag = QTag(ns_mods, s_publisher)
          /\ e.children[i].text # Absent
          /\ IsPrefix(s_Staatsbibliothek_zu_Berlin, e.children[i].text)
          /\ e.children[j].tag = QTag(ns_mods, s_edition)
          /\ e.children[j].text = s_Electronic_ed
    THEN s_digitization
    ELSE IF HasChild(e, s_dateIssued) THEN s_publication
    ELSE IF HasChild(e, s_dateCreated) THEN s_production
    ELSE Absent

Untyped(e) == \A p \in e.attrib : p[1] # "eventType"

FixWarnings(warns) ==
    SelectSeq(warns, LAMBDA w :
        w.message \in {"Fixed eventType for electronic ed.",
                       "Fixed eventType for an issued origin",
                       "Fixed eventType for a created origin"})

OriginInfoKeys(d) ==
    SelectSeq(DKeys(d), LAMBDA k : IsPrefix(s_originInfo_, k))

\* C26: fix_event_type gives an originInfo without eventType the type that
\* the priority digitization, publication, production infers, with one
\* warning for each type given; it leaves a member with an eventType as it
\* is; a member for which no case matches stays without eventType, the
\* filter that follows removes it with one 'has no eventType' warning, and
\* the record has an originInfo key for the other members only.
C26_EventTypeByPriority ==
    (pc = "done" /\ arg.op = "fix_event_type") =>
        LET group == arg.group
            fixed == ret.fixed
            inferred == {i \in 1..Len(group) :
                            Untyped(group[i]) /\ InferredEventType(group[i]) # Absent}
            unresolved == {i \in 1..Len(group) :
                            Untyped(group[i]) /\ InferredEventType(group[i]) = Absent}
        IN  /\ fixed.err = "" /\ Len(fixed.group) = Len(group)
            /\ \A i \in 1..Len(group) :
                  fixed.group[i] =
                      IF i \in inferred
                      THEN [group[i] EXCEPT !.attrib =
                               @ \cup {<<"eventType", InferredEventType(group[i])>>}]
                      ELSE group[i]
            /\ Len(fixed.warns) = Cardinality(inferred)
            /\ Len(FixWarnings(fixed.warns)) = Cardinality(inferred)
            /\ ret.value.err = ""
            /\ Len(FixWarnings(ret.value.warns)) = Cardinality(inferred)
            /\ Len(SelectSeq(ret.value.warns,
                      LAMBDA w : w.message = "Filtered element"
                                   /\ w.detail = "has no eventType"))
                  = Cardinality(unresolved)
            /\ Len(OriginInfoKeys(ret.value.v))
                  = Len(group) - Cardinality(unresolved)

\* C26, witness: an element for which digitization and publication both
\* match is given digitization, beside an element that no case matches.
C26_Witness ==
    /\ pc = "done" /\ arg.op = "fix_event_type"
    /\ Len(arg.group) = 2
    /\ arg.group[1] = OriginInfoOf({}, <<PublisherSBB, EditionElectronic, DateIssued1>>)
    /\ arg.group[2] = OriginInfoOf({}, <<PublisherSBB, Edition1>>)
    /\ AttrGet(ret.fixed.group[1], "eventType") = s_digitization
    /\ AttrGet(ret.fixed.group[2], "eventType") = Absent
    /\ Len(OriginInfoKeys(ret.value.v)) = 1

\* C30: force_singleton on a group of no or one member gives the group as it
\* is and no warning.  The code tests len(self.group) == 1, so that the
\* group without members takes the branch that warns.
C30_NoWarningUpToOneMember ==
    (pc = "done" /\ arg.op = "force_singleton" /\ Len(arg.group) <= 1) =>
        /\ ret.tg.group = arg.group
        /\ ret.tg.warns = <<>>

\* On a group of exactly one member force_singleton gives the group as it is
\* and no warning; on a group of no member it gives the group as it is.
C30_GroupUnchangedUpToOneMember ==
    (pc = "done" /\ arg.op = "force_singleton" /\ Len(arg.group) <= 1) =>
        /\ ret.tg.group = arg.group
        /\ Len(arg.group) = 1 => ret.tg.warns = <<>>

============================================================================
